---- MODULE Spec2Model ----
(***************************************************************************)
(* State-machine model of the edge CDN gateway (src/src/index.ts, class    *)
(* CDNService): the versioned file store, the quota accountant and the     *)
(* layered cache resolver.                                                 *)
(*                                                                         *)
(* The key-value namespaces are split by key prefix, one variable per      *)
(* prefix ("file:", "asset:", "version:", ...): the prefixes are disjoint  *)
(* literals in the source, so no key of one family can name an entry of    *)
(* another.                                                                *)
(*                                                                         *)
(* Sizes are counted in units of 1 MiB: a byte sequence of length n stands *)
(* for n MiB, and the byte limits of the source are written in that unit   *)
(* (25 * 1024 * 1024 is 25, 1024 * 1024 * 1024 is 1024).                   *)
(***************************************************************************)
EXTENDS Integers, Sequences, FiniteSets, TLC

VARIABLES
    db,             \* ASSETS_DB, table assets: id -> row
    fileMeta,       \* CDN_METADATA  "file:<id>"            -> metadata object
    userUploads,    \* CDN_METADATA  "user_uploads:<user>"  -> list of uploads
    storageUsage,   \* CDN_METADATA  "storage_usage:<user>" -> usage ledger
    assetCache,     \* CDN_CACHE     "asset:<path>"         -> [value, size]
    fileContent,    \* FILE_CONTENT  "content:<id>"         -> bytes
    versionRec,     \* FILE_VERSIONS "version:<id>:<n>"     -> FileVersion
    versionContent, \* FILE_VERSIONS "version_content:<id>:<n>" -> bytes
    versionIndex,   \* FILE_VERSIONS "versions:<id>"        -> list of numbers
    searchIndex,    \* CDN_METADATA  "search:index"         -> <<>> or <<list of assets>>
    kvCache,        \* CDN_CACHE     "worker:..." / "external:..." -> response data
    kvCacheMeta,    \* CDN_METADATA  "worker:..." / "external:..." -> cache metadata
    cacheStats,     \* CDN_METADATA  "cdn:stats:daily"      -> today's counters
    edgeCache,      \* caches.default: cache key -> response
    pendingKV,      \* storeInKVCache calls started and not awaited
    pendingEdge,    \* cache.put calls started and not awaited
    inflight,       \* upload requests being handled: number -> position and locals
    nextId,         \* number of ids/paths minted so far (randomUUID, random path)
    now,            \* Date.now()
    nOps,           \* number of requests handled so far
    hist,           \* per file: accepted updates since its creation
    last            \* the last request handled and its response

storeVars == <<db, fileMeta, userUploads, storageUsage, assetCache, fileContent,
               versionRec, versionContent, versionIndex, searchIndex>>
cacheVars == <<kvCache, kvCacheMeta, cacheStats, edgeCache, pendingKV, pendingEdge>>
vars == <<db, fileMeta, userUploads, storageUsage, assetCache, fileContent,
          versionRec, versionContent, versionIndex, searchIndex,
          kvCache, kvCacheMeta, cacheStats, edgeCache, pendingKV, pendingEdge,
          inflight, nextId, now, nOps, hist, last>>

----------------------------------------------------------------------------
(* Bounds of the model *)
MaxClock == 1
MaxOps == 4
MaxUploads == 1

(* Program constants *)
MaxVersions == 50
MaxTracked == 1000
MaxUploadSize == 25
UserMaxFiles == 100
UserMaxStorage == 1024
PremiumMaxFiles == 1000
PremiumMaxStorage == 10240
Unlimited == -1

Users == {"u1", "u2"}
Role(u) == IF u = "u1" THEN "user" ELSE IF u = "u2" THEN "premium" ELSE "admin"

----------------------------------------------------------------------------
(* Key-value namespaces as finite maps *)
Empty == <<>>
Has(kv, k) == k \in DOMAIN kv
Put(kv, k, v) == (k :> v) @@ kv
Del(kv, k) == [x \in (DOMAIN kv) \ {k} |-> kv[x]] @@ Empty

(* JavaScript object spread {...a, ...b} *)
Spread(a, b) == b @@ a

(* First n elements: Array.prototype.slice(0, n) *)
Take(s, n) == IF Len(s) <= n THEN s ELSE SubSeq(s, 1, n)
(* Elements after the first n: Array.prototype.slice(n) *)
Drop(s, n) == IF Len(s) <= n THEN <<>> ELSE SubSeq(s, n + 1, Len(s))

Range(s) == {s[i] : i \in DOMAIN s}

(* Array.prototype.sort((a, b) => b[key] - a[key]) on the keys of an array: *)
(* the place of element i is after every element with a larger key and      *)
(* every element with an equal key that stands before it (the sort is       *)
(* stable).  Order(keys)[p] is the index of the element that goes to place  *)
(* p.  SubSeq enumerates the sequences once instead of recomputing them at  *)
(* each application.                                                        *)
Order(keys) ==
    LET n == Len(keys)
        place == SubSeq([i \in 1..n |->
                            1 + Cardinality({j \in 1..n :
                                               \/ keys[j] > keys[i]
                                               \/ (keys[j] = keys[i] /\ j < i)})],
                        1, n)
    IN  SubSeq([p \in 1..n |-> CHOOSE i \in 1..n : place[i] = p], 1, n)

(* Array.prototype.sort((a, b) => b - a) on numbers *)
SortDesc(s) ==
    LET order == Order(s)
    IN  SubSeq([p \in 1..Len(s) |-> s[order[p]]], 1, Len(s))

(* The opposite order: Array.prototype.sort((a, b) => a[key] - b[key]) *)
SortAscBy(s, key) ==
    LET order == Order(SubSeq([i \in 1..Len(s) |-> 0 - s[i][key]], 1, Len(s)))
    IN  SubSeq([p \in 1..Len(s) |-> s[order[p]]], 1, Len(s))

(* Array.prototype.sort((a, b) => b[key] - a[key]) on objects *)
SortDescBy(s, key) ==
    LET order == Order(SubSeq([i \in 1..Len(s) |-> s[i][key]], 1, Len(s)))
    IN  SubSeq([p \in 1..Len(s) |-> s[order[p]]], 1, Len(s))

(* A sum of numbers given as a table from each value to the number of its   *)
(* occurrences: the order of the additions does not change an integer sum   *)
RECURSIVE SumCounts(_)
SumCounts(counts) ==
    IF DOMAIN counts = {} THEN 0
    ELSE LET v == CHOOSE x \in DOMAIN counts : TRUE
         IN  v * counts[v] + SumCounts([w \in (DOMAIN counts) \ {v} |-> counts[w]])

(* Array.prototype.reduce((sum, x) => sum + x[key], 0) *)
SumOf(s, key) ==
    SumCounts([v \in {s[i][key] : i \in DOMAIN s} |->
                  Cardinality({i \in DOMAIN s : s[i][key] = v})])

----------------------------------------------------------------------------
(* The stores as one value, so that a handler is a function of the stores. *)
(* faults names the writes to FILE_VERSIONS that throw while the handler    *)
(* runs: none, unless a request is made with some.                          *)
St ==
    [db |-> db, fileMeta |-> fileMeta, userUploads |-> userUploads,
     storageUsage |-> storageUsage, assetCache |-> assetCache,
     fileContent |-> fileContent, versionRec |-> versionRec,
     versionContent |-> versionContent, versionIndex |-> versionIndex,
     searchIndex |-> searchIndex, faults |-> {}]

EmptyStores ==
    [db |-> Empty, fileMeta |-> Empty, userUploads |-> Empty,
     storageUsage |-> Empty, assetCache |-> Empty, fileContent |-> Empty,
     versionRec |-> Empty, versionContent |-> Empty, versionIndex |-> Empty,
     searchIndex |-> <<>>, faults |-> {}]

Commit(S) ==
    /\ db' = S.db
    /\ fileMeta' = S.fileMeta
    /\ userUploads' = S.userUploads
    /\ storageUsage' = S.storageUsage
    /\ assetCache' = S.assetCache
    /\ fileContent' = S.fileContent
    /\ versionRec' = S.versionRec
    /\ versionContent' = S.versionContent
    /\ versionIndex' = S.versionIndex
    /\ searchIndex' = S.searchIndex

----------------------------------------------------------------------------
(* Text.  A string whose characters matter is the sequence of its          *)
(* characters; CharsOf spells the words the requests below are made of.     *)
CharsOf(word) ==
    CASE word = "" -> <<>>
      [] word = "GET" -> <<"G", "E", "T">>
      [] word = "POST" -> <<"P", "O", "S", "T">>
      [] word = "worker" -> <<"w", "o", "r", "k", "e", "r">>
      [] word = "auth" -> <<"a", "u", "t", "h">>
      [] word = "cdn" -> <<"c", "d", "n">>
      [] word = "api" -> <<"a", "p", "i">>
      [] word = "data" -> <<"d", "a", "t", "a">>
      [] word = "page" -> <<"p", "a", "g", "e">>
      [] word = "fetch" -> <<"f", "e", "t", "c", "h">>
      [] word = "https" -> <<"h", "t", "t", "p", "s">>
      [] word = "example.com" -> <<"e", "x", "a", "m", "p", "l", "e", ".", "c", "o", "m">>
      [] word = "localhost" -> <<"l", "o", "c", "a", "l", "h", "o", "s", "t">>
      [] word = "a.png" -> <<"a", ".", "p", "n", "g">>
      [] word = "logo.png" -> <<"l", "o", "g", "o", ".", "p", "n", "g">>
      [] word = "app.css" -> <<"a", "p", "p", ".", "c", "s", "s">>
      [] word = "Bearer t1" -> <<"B", "e", "a", "r", "e", "r", " ", "t", "1">>
      [] word = "note.txt" -> <<"n", "o", "t", "e", ".", "t", "x", "t">>
      [] word = "film.bin" -> <<"f", "i", "l", "m", ".", "b", "i", "n">>
      [] word = "clip.mp4" -> <<"c", "l", "i", "p", ".", "m", "p", "4">>
      [] word = "Clip.MP4" -> <<"C", "l", "i", "p", ".", "M", "P", "4">>
      [] word = "README" -> <<"R", "E", "A", "D", "M", "E">>
      [] word = "live.m3u8" -> <<"l", "i", "v", "e", ".", "m", "3", "u", "8">>
      [] word = "proxy" -> <<"p", "r", "o", "x", "y">>
      [] word = "constructor" -> <<"c", "o", "n", "s", "t", "r", "u", "c", "t", "o", "r">>
      [] word = "prod" -> <<"p", "r", "o", "d">>
      [] word = "object" -> <<"o", "b", "j", "e", "c", "t">>
      [] word = "uuid" -> <<"u", "u", "i", "d">>
      [] word = "missing" -> <<"m", "i", "s", "s", "i", "n", "g">>
      [] word = "0" -> <<"0">>
      [] word = "1" -> <<"1">>
      [] word = "2" -> <<"2">>
      [] word = "3" -> <<"3">>
      [] word = "4" -> <<"4">>
      [] word = "5" -> <<"5">>
      [] word = "6" -> <<"6">>
      [] word = "7" -> <<"7">>
      [] word = "8" -> <<"8">>
      [] word = "9" -> <<"9">>

(* Array.prototype.join *)
RECURSIVE Join(_, _)
Join(parts, sep) ==
    IF parts = <<>> THEN <<>>
    ELSE IF Len(parts) = 1 THEN parts[1]
    ELSE parts[1] \o sep \o Join(Tail(parts), sep)

(* url.pathname of a request whose path has these segments *)
Pathname(pathParts) ==
    <<"/">> \o Join([i \in DOMAIN pathParts |-> CharsOf(pathParts[i])], <<"/">>)

(* The printable ASCII characters, from code 32 to code 126 (the double     *)
(* quote, the backslash and the backtick by name)                           *)
AsciiChars ==
    <<" ", "!", "quote", "#", "$", "%", "&", "'", "(", ")", "*", "+", ",", "-", ".", "/",
      "0", "1", "2", "3", "4", "5", "6", "7", "8", "9", ":", ";", "<", "=", ">", "?",
      "@", "A", "B", "C", "D", "E", "F", "G", "H", "I", "J", "K", "L", "M", "N", "O",
      "P", "Q", "R", "S", "T", "U", "V", "W", "X", "Y", "Z", "[", "backslash", "]", "^", "_",
      "backtick", "a", "b", "c", "d", "e", "f", "g", "h", "i", "j", "k", "l", "m", "n", "o",
      "p", "q", "r", "s", "t", "u", "v", "w", "x", "y", "z", "{", "|", "}", "~">>

CharCode(c) == 31 + (CHOOSE i \in DOMAIN AsciiChars : AsciiChars[i] = c)

Base64Chars ==
    <<"A", "B", "C", "D", "E", "F", "G", "H", "I", "J", "K", "L", "M", "N", "O", "P",
      "Q", "R", "S", "T", "U", "V", "W", "X", "Y", "Z", "a", "b", "c", "d", "e", "f",
      "g", "h", "i", "j", "k", "l", "m", "n", "o", "p", "q", "r", "s", "t", "u", "v",
      "w", "x", "y", "z", "0", "1", "2", "3", "4", "5", "6", "7", "8", "9", "+", "/">>

(* btoa: three bytes become four characters of the base64 alphabet; a last  *)
(* group of one or two bytes is padded with "="                             *)
Btoa(text) ==
    LET n == Len(text)
        bytes == SubSeq([i \in 1..n |-> CharCode(text[i])], 1, n)
        byteAt(i) == IF i <= n THEN bytes[i] ELSE 0
        Group(g) ==
            LET v == byteAt(3 * g - 2) * 65536 + byteAt(3 * g - 1) * 256 + byteAt(3 * g)
                have == n - 3 * (g - 1)
                c1 == Base64Chars[(v \div 262144) + 1]
                c2 == Base64Chars[((v \div 4096) % 64) + 1]
                c3 == Base64Chars[((v \div 64) % 64) + 1]
                c4 == Base64Chars[(v % 64) + 1]
            IN  IF have >= 3 THEN <<c1, c2, c3, c4>>
                ELSE IF have = 2 THEN <<c1, c2, c3, "=">>
                ELSE <<c1, c2, "=", "=">>
        groups == (n + 2) \div 3
    IN  SubSeq([k \in 1..(4 * groups) |-> Group(((k - 1) \div 4) + 1)[((k - 1) % 4) + 1]],
               1, 4 * groups)

IsAlphaNumeric(c) == c \notin {"+", "/", "="}

HashLength == 32

(* hashRequest: method, path and query, then the authorization, accept and  *)
(* accept-language headers ('' when absent), base64-encoded, stripped of    *)
(* what is not a letter or a digit, cut to 32 characters                    *)
ComputeHash(method, pathParts, authorization) ==
    LET key == CharsOf(method) \o <<":">> \o Pathname(pathParts)
        headerValues == Join(<<CharsOf(authorization), <<>>, <<>>>>, <<":">>)
    IN  Take(SelectSeq(Btoa(key \o <<":">> \o headerValues), IsAlphaNumeric), HashLength)


(* pathname.substring(pathname.lastIndexOf('.')): the whole name when it    *)
(* has no dot                                                               *)
Extension(pathname) ==
    LET dots == {i \in DOMAIN pathname : pathname[i] = "."}
    IN  IF dots = {} THEN pathname
        ELSE SubSeq(pathname, CHOOSE i \in dots : \A j \in dots : j <= i, Len(pathname))

(* String.prototype.toLowerCase on ASCII text: "A".."Z" are 33 places       *)
(* before "a".."z" in the table above, 32 character codes apart             *)
ToLowerCase(text) ==
    LET lower(c) == IF \E i \in 34..59 : AsciiChars[i] = c
                    THEN AsciiChars[(CHOOSE i \in 34..59 : AsciiChars[i] = c) + 32]
                    ELSE c
    IN  SubSeq([i \in 1..Len(text) |-> lower(text[i])], 1, Len(text))

(* MIME_TYPES, by extension *)
MimeTypes ==
    (<<".", "j", "p", "g">> :> "image/jpeg")
      @@ (<<".", "j", "p", "e", "g">> :> "image/jpeg")
      @@ (<<".", "p", "n", "g">> :> "image/png")
      @@ (<<".", "g", "i", "f">> :> "image/gif")
      @@ (<<".", "w", "e", "b", "p">> :> "image/webp")
      @@ (<<".", "a", "v", "i", "f">> :> "image/avif")
      @@ (<<".", "s", "v", "g">> :> "image/svg+xml")
      @@ (<<".", "i", "c", "o">> :> "image/x-icon")
      @@ (<<".", "w", "o", "f", "f">> :> "font/woff")
      @@ (<<".", "w", "o", "f", "f", "2">> :> "font/woff2")
      @@ (<<".", "t", "t", "f">> :> "font/ttf")
      @@ (<<".", "e", "o", "t">> :> "application/vnd.ms-fontobject")
      @@ (<<".", "o", "t", "f">> :> "font/otf")
      @@ (<<".", "c", "s", "s">> :> "text/css")
      @@ (<<".", "j", "s">> :> "application/javascript")
      @@ (<<".", "m", "j", "s">> :> "application/javascript")
      @@ (<<".", "j", "s", "o", "n">> :> "application/json")
      @@ (<<".", "x", "m", "l">> :> "application/xml")
      @@ (<<".", "h", "t", "m", "l">> :> "text/html")
      @@ (<<".", "h", "t", "m">> :> "text/html")
      @@ (<<".", "t", "x", "t">> :> "text/plain")
      @@ (<<".", "p", "d", "f">> :> "application/pdf")
      @@ (<<".", "m", "p", "3">> :> "audio/mpeg")
      @@ (<<".", "m", "p", "4">> :> "video/mp4")
      @@ (<<".", "w", "e", "b", "m">> :> "video/webm")
      @@ (<<".", "o", "g", "g">> :> "audio/ogg")
      @@ (<<".", "z", "i", "p">> :> "application/zip")
      @@ (<<".", "g", "z">> :> "application/gzip")

(* getContentType *)
GetContentType(pathname) ==
    LET ext == ToLowerCase(Extension(pathname))
    IN  IF ext \in DOMAIN MimeTypes THEN MimeTypes[ext] ELSE "application/octet-stream"

(* file.type || getContentType(file.name): a form part may state its type *)
MimeTypeOf(file) ==
    IF "type" \in DOMAIN file /\ file.type # "" THEN file.type
    ELSE GetContentType(CharsOf(file.name))

(* isMediaFile: contentType.startsWith('video/'), startsWith('audio/') or   *)
(* the type given to unknown extensions                                     *)
IsMediaFile(contentType) ==
    contentType \in {"video/mp4", "video/webm", "audio/mpeg", "audio/ogg",
                     "application/octet-stream"}


----------------------------------------------------------------------------
(* Paths.  A path is the sequence of its segments. *)
RoutingSuffix == <<"object", "live.m3u8">>

(* A replace that replaces nothing *)
KeepSuffix(path) == path

(* String.prototype.replace('/object/live.m3u8', ''): the first occurrence *)
StripSuffix(path) ==
    LET n == Len(RoutingSuffix)
        hits == {i \in 1..(Len(path) - n + 1) : SubSeq(path, i, i + n - 1) = RoutingSuffix}
    IN  IF hits = {} THEN path
        ELSE LET i == CHOOSE j \in hits : \A k \in hits : j <= k
             IN  SubSeq(path, 1, i - 1) \o SubSeq(path, i + n, Len(path))

(* The decimal digits of a number, as path segments *)
RECURSIVE Digits(_)
Digits(k) ==
    LET d == <<"0", "1", "2", "3", "4", "5", "6", "7", "8", "9">>
    IN  IF k < 10 THEN <<d[k + 1]>> ELSE Digits(k \div 10) \o <<d[(k % 10) + 1]>>

(* generateComplexAssetPath: a new path on every call, ending in the suffix *)
GenerateComplexAssetPath(k) == <<"prod">> \o Digits(k) \o RoutingSuffix

(* crypto.randomUUID() *)
RandomUUID(k) == <<"uuid">> \o Digits(k)

(* `asset:${metadata.path}`: a missing path prints as "undefined" *)
AssetKey(m) == IF "path" \in DOMAIN m THEN m.path ELSE <<"undefined">>

(* Length of the UTF-8 JSON text of a metadata object: one unit per         *)
(* serialized property                                                      *)
MetaBytes(m) == Cardinality(DOMAIN m)

(* SHA-256 of the content, taken to be collision free *)
GenerateContentHash(bytes) == <<"sha256", bytes>>

----------------------------------------------------------------------------
(* The assets table.  AssetColumns is the schema of initializeDatabase; a  *)
(* row of the model carries the columns the handlers read.                  *)
AssetColumns ==
    {"id", "name", "original_name", "file_path", "file_size", "mime_type",
     "category", "description", "tags", "uploaded_at", "search_terms",
     "created_at", "updated_at", "user_id"}

(* UPDATE assets SET <cols> WHERE id = ? AND user_id = ?  : the statement   *)
(* is rejected (it throws) when it names a column the table does not have   *)
DbUpdate(table, id, u, sets) ==
    IF ~((DOMAIN sets) \subseteq AssetColumns) THEN [ok |-> FALSE, table |-> table]
    ELSE IF Has(table, id) /\ table[id].user_id = u
         THEN [ok |-> TRUE, table |-> Put(table, id, Spread(table[id], sets))]
         ELSE [ok |-> TRUE, table |-> table]

(* getFileMetadata: the relational row first, the key-value object second.  *)
(* The result is <<>> (null) or <<metadata>>.                               *)
RowToMetadata(id, row) ==
    Spread([id |-> id,
            name |-> row.name,
            description |-> row.description,
            mimeType |-> row.mime_type,
            ownerId |-> row.user_id,
            modified |-> row.updated_at,
            version |-> IF "version" \in DOMAIN row THEN row.version ELSE 1],
           [k \in {"path", "size"} \cap DOMAIN row |-> row[k]])

GetFileMetadata(S, id) ==
    IF Has(S.db, id) THEN <<RowToMetadata(id, S.db[id])>>
    ELSE IF Has(S.fileMeta, id) THEN <<S.fileMeta[id]>>
    ELSE <<>>

(* A property of an object, or "undefined" *)
Field(obj, k) == IF k \in DOMAIN obj THEN obj[k] ELSE "undefined"

----------------------------------------------------------------------------
(* A ledger update that adds to a part and leaves the total as it was *)
UpdateUserStorageUsageStaleTotal(S, u, oldSize, newSize, type) ==
    LET cur == IF Has(S.storageUsage, u) THEN S.storageUsage[u]
               ELSE [files |-> 0, versions |-> 0, total |-> 0]
        upd == IF type = "version"
               THEN [cur EXCEPT !.versions = @ + (newSize - oldSize)]
               ELSE [cur EXCEPT !.files = @ + (newSize - oldSize)]
    IN  [S EXCEPT !.storageUsage = Put(@, u, upd)]

(* A ledger update that takes the difference the other way round *)
UpdateUserStorageUsageSwapped(S, u, oldSize, newSize, type) ==
    LET cur == IF Has(S.storageUsage, u) THEN S.storageUsage[u]
               ELSE [files |-> 0, versions |-> 0, total |-> 0]
        upd == IF type = "version"
               THEN [cur EXCEPT !.versions = @ + (oldSize - newSize)]
               ELSE [cur EXCEPT !.files = @ + (oldSize - newSize)]
    IN  [S EXCEPT !.storageUsage = Put(@, u, [upd EXCEPT !.total = upd.files + upd.versions])]

(* updateUserStorageUsage *)
UpdateUserStorageUsage(S, u, oldSize, newSize, type) ==
    LET cur == IF Has(S.storageUsage, u) THEN S.storageUsage[u]
               ELSE [files |-> 0, versions |-> 0, total |-> 0]
        upd == IF type = "version"
               THEN [cur EXCEPT !.versions = @ + (newSize - oldSize)]
               ELSE [cur EXCEPT !.files = @ + (newSize - oldSize)]
    IN  [S EXCEPT !.storageUsage = Put(@, u, [upd EXCEPT !.total = upd.files + upd.versions])]

(* A cleanup that finds nothing to delete *)
NoOldVersions(sorted) == <<>>

(* versionIndex.slice(50): the numbers the trimmed index no longer has *)
OldVersions(sorted) == Drop(sorted, MaxVersions)

(* createFileVersion *)
CreateFileVersion(S, metadata, u, changeType, changes, t) ==
    LET id == metadata.id
        versionNumber == metadata.version
        withContent == changeType \in {"content", "both"} /\ Has(S.fileContent, id)
        contentSize == IF withContent THEN Len(S.fileContent[id]) ELSE 0
        vc == IF withContent
              THEN Put(S.versionContent, <<id, versionNumber>>, S.fileContent[id])
              ELSE S.versionContent
        versionData == [version |-> versionNumber,
                        timestamp |-> t,
                        authorId |-> u,
                        changeType |-> changeType,
                        changes |-> changes,
                        storage |-> [contentBytes |-> contentSize,
                                     metadataBytes |-> MetaBytes(metadata)]]
        vr == Put(S.versionRec, <<id, versionNumber>>, versionData)
        versionIndexNow == IF Has(S.versionIndex, id) THEN S.versionIndex[id] ELSE <<>>
        sorted == SortDesc(Append(versionIndexNow, versionNumber))
        trimmedIndex == Take(sorted, MaxVersions)
        old == {<<id, o>> : o \in Range(OldVersions(sorted))}
    IN  \* a put that throws ends the try block: the catch logs and returns
        IF withContent /\ "putContent" \in S.faults THEN S
        ELSE IF "putRecord" \in S.faults THEN [S EXCEPT !.versionContent = vc]
        ELSE IF versionNumber \in Range(versionIndexNow) \/ "putIndex" \in S.faults
        THEN [S EXCEPT !.versionContent = vc, !.versionRec = vr]
        ELSE [S EXCEPT !.versionContent = [k \in (DOMAIN vc) \ old |-> vc[k]],
                       !.versionRec = [k \in (DOMAIN vr) \ old |-> vr[k]],
                       !.versionIndex = Put(@, id, trimmedIndex)]

(* getFileVersions: the records of the index that exist, newest timestamp   *)
(* first                                                                    *)
ExistingVersions(S, id, index) ==
    LET found == SelectSeq(index, LAMBDA v : Has(S.versionRec, <<id, v>>))
    IN  SubSeq([i \in 1..Len(found) |-> S.versionRec[<<id, found[i]>>]], 1, Len(found))

GetFileVersions(S, id) ==
    SortDescBy(ExistingVersions(S, id,
                   IF Has(S.versionIndex, id) THEN S.versionIndex[id] ELSE <<>>),
               "timestamp")

----------------------------------------------------------------------------
(* Responses.  createErrorResponse(status, message) is a JSON body          *)
(* {error, status, timestamp} sent with that status.                        *)
CreateErrorResponse(status, message) ==
    [status |-> status, json |-> TRUE, error |-> message, bodyStatus |-> status]

(* The columns updateFileMetadata sets in the row of the file *)
MetadataUpdateSets(updatedMetadata, t) ==
    [name |-> updatedMetadata.name,
     description |-> Field(updatedMetadata, "description"),
     tags |-> <<>>,
     custom_fields |-> <<>>,
     version |-> updatedMetadata.version,
     updated_at |-> t]

(* updateFileMetadata *)
UpdateFileMetadata(S, id, u, updateData, t) ==
    LET found == GetFileMetadata(S, id) IN
    IF found = <<>> THEN [S |-> S, resp |-> CreateErrorResponse(404, "File not found")]
    ELSE
    LET currentMetadata == found[1]
        S1 == CreateFileVersion(S, currentMetadata, u, "metadata",
                                [metadata |-> updateData], t)
        updatedMetadata ==
            Spread(Spread(currentMetadata, updateData),
                   [modified |-> t, version |-> currentMetadata.version + 1])
        upd == DbUpdate(S1.db, id, u, MetadataUpdateSets(updatedMetadata, t))
        S2 == [S1 EXCEPT !.db = upd.table,
                         !.fileMeta = Put(@, id, updatedMetadata)]
        key == AssetKey(currentMetadata)
        existing == Has(S2.assetCache, key)
        \* existingMeta.size || currentMetadata.size.toString() throws when
        \* neither size is there
        sizeKnown == existing =>
                        \/ "size" \in DOMAIN S2.assetCache[key]
                        \/ "size" \in DOMAIN currentMetadata
        S3 == IF existing /\ sizeKnown
              THEN [S2 EXCEPT !.assetCache =
                        Put(@, key,
                            [value |-> S2.assetCache[key].value,
                             size |-> IF "size" \in DOMAIN S2.assetCache[key]
                                      THEN S2.assetCache[key].size
                                      ELSE currentMetadata.size,
                             name |-> updatedMetadata.name])]
              ELSE S2
        metadataSize == MetaBytes(currentMetadata)
        S4 == UpdateUserStorageUsage(S3, u, 0, metadataSize, "version")
    IN  IF ~sizeKnown
        THEN [S |-> S2,
              resp |-> CreateErrorResponse(500, "Failed to update file metadata")]
        ELSE [S |-> S4,
              resp |-> [status |-> 200, json |-> TRUE, success |-> TRUE,
                        version |-> updatedMetadata.version]]

(* A test of the new content that lets every body through *)
ContentNeverEmpty(newContent) == FALSE

(* newSize === 0 *)
ContentIsEmpty(newContent) == Len(newContent) = 0

(* updateFileContent *)
UpdateFileContent(S, id, u, newContent, t) ==
    LET found == GetFileMetadata(S, id) IN
    IF found = <<>> THEN [S |-> S, resp |-> CreateErrorResponse(404, "File not found")]
    ELSE IF ContentIsEmpty(newContent)
    THEN [S |-> S, resp |-> CreateErrorResponse(400, "Content cannot be empty")]
    ELSE
    LET currentMetadata == found[1]
        hadContent == Has(S.fileContent, id)
        newSize == Len(newContent)
        S1 == IF hadContent
              THEN CreateFileVersion(S, currentMetadata, u, "content",
                       [contentSize |-> Len(S.fileContent[id]),
                        contentHash |-> GenerateContentHash(S.fileContent[id])], t)
              ELSE S
        updatedMetadata ==
            Spread(currentMetadata,
                   [size |-> newSize, modified |-> t,
                    version |-> currentMetadata.version + 1])
        S2 == [S1 EXCEPT
                 !.fileContent = Put(@, id, newContent),
                 !.assetCache = Put(@, AssetKey(currentMetadata),
                                    Spread([value |-> newContent, size |-> newSize],
                                           IF "mimeType" \in DOMAIN currentMetadata
                                           THEN [contentType |-> currentMetadata.mimeType]
                                           ELSE Empty)),
                 !.fileMeta = Put(@, id, updatedMetadata)]
        upd == DbUpdate(S2.db, id, u,
                   [size |-> newSize, file_size |-> newSize,
                    version |-> updatedMetadata.version, updated_at |-> t])
        S3 == [S2 EXCEPT !.db = upd.table]
        oldContentSize == IF hadContent THEN Len(S.fileContent[id]) ELSE 0
        S4 == UpdateUserStorageUsage(S3, u, oldContentSize, newSize, "version")
    IN  [S |-> S4,
         resp |-> [status |-> 200, json |-> TRUE, success |-> TRUE,
                   version |-> updatedMetadata.version, size |-> newSize]]

(* restoreFileVersion *)
RestoreFileVersion(S, id, version, u, t) ==
    IF ~Has(S.versionRec, <<id, version>>)
    THEN [S |-> S, resp |-> CreateErrorResponse(404, "Version not found")]
    ELSE
    LET versionData == S.versionRec[<<id, version>>]
        found == GetFileMetadata(S, id)
    IN
    IF found = <<>> THEN [S |-> S, resp |-> CreateErrorResponse(404, "File not found")]
    ELSE
    LET currentMetadata == found[1]
        S1 == CreateFileVersion(S, currentMetadata, u, "both",
                  IF "size" \in DOMAIN currentMetadata
                  THEN [metadata |-> currentMetadata,
                        contentSize |-> currentMetadata.size]
                  ELSE [metadata |-> currentMetadata], t)
        S2 == IF /\ versionData.changeType \in {"metadata", "both"}
                 /\ "metadata" \in DOMAIN versionData.changes
              THEN [S1 EXCEPT !.fileMeta =
                       Put(@, id,
                           Spread(Spread(currentMetadata, versionData.changes.metadata),
                                  [version |-> currentMetadata.version + 1,
                                   modified |-> t]))]
              ELSE S1
        S3 == IF /\ versionData.changeType \in {"content", "both"}
                 /\ Has(S2.versionContent, <<id, version>>)
              THEN [S2 EXCEPT !.fileContent = Put(@, id, S2.versionContent[<<id, version>>])]
              ELSE S2
    IN  [S |-> S3,
         resp |-> [status |-> 200, json |-> TRUE, success |-> TRUE,
                   restoredVersion |-> version,
                   newVersion |-> currentMetadata.version + 1]]

(* handleFileEditorRequest and handleVersionsRequest: the ownership gate    *)
(* in front of the versioned operations                                     *)
OwnershipGate(S, id, u) ==
    LET found == GetFileMetadata(S, id) IN
    IF found = <<>> THEN CreateErrorResponse(404, "File not found")
    ELSE IF Field(found[1], "ownerId") # u
    THEN CreateErrorResponse(403, "Access denied")
    ELSE [status |-> 200]

HandleFileEditorRequest(S, id, u, action, arg, t) ==
    LET gate == OwnershipGate(S, id, u) IN
    IF gate.status # 200 THEN [S |-> S, resp |-> gate]
    ELSE IF action = "metadata" THEN UpdateFileMetadata(S, id, u, arg, t)
    ELSE UpdateFileContent(S, id, u, arg, t)

HandleVersionsRestore(S, id, u, version, t) ==
    LET gate == OwnershipGate(S, id, u) IN
    IF gate.status # 200 THEN [S |-> S, resp |-> gate]
    ELSE RestoreFileVersion(S, id, version, u, t)

(* GET /api/versions/{id}: getFileVersionHistory *)
HandleVersionsList(S, id, u) ==
    LET gate == OwnershipGate(S, id, u) IN
    IF gate.status # 200 THEN [S |-> S, resp |-> gate]
    ELSE [S |-> S,
          resp |-> [status |-> 200, json |-> TRUE, success |-> TRUE,
                    versions |-> GetFileVersions(S, id)]]

----------------------------------------------------------------------------
(* Quota and usage *)

SumFileSize(rows) ==
    SumCounts([v \in {r[2].file_size : r \in rows} |->
                  Cardinality({r \in rows : r[2].file_size = v})])

(* The rows of a user, as (id, row) pairs *)
RowsOf(table, u) == {<<i, table[i]>> : i \in {j \in DOMAIN table : table[j].user_id = u}}

(* A usage that counts a user's larger backend instead of both *)
CalculateUserUsageLargerBackend(S, u, dbFails) ==
    LET kvUploads == IF Has(S.userUploads, u) THEN S.userUploads[u] ELSE <<>>
        kvFiles == Len(kvUploads)
        kvStorage == SumOf(kvUploads, "size")
        rows == RowsOf(S.db, u)
        dbFiles == Cardinality(rows)
        dbStorage == SumFileSize(rows)
    IN  IF dbFails THEN [files |-> kvFiles, storage |-> kvStorage]
        ELSE [files |-> IF kvFiles >= dbFiles THEN kvFiles ELSE dbFiles,
              storage |-> IF kvStorage >= dbStorage THEN kvStorage ELSE dbStorage]

(* calculateUserUsage.  dbFails: the relational query throws (it is caught  *)
(* and that backend counts for nothing).                                    *)
CalculateUserUsage(S, u, dbFails) ==
    LET kvUploads == IF Has(S.userUploads, u) THEN S.userUploads[u] ELSE <<>>
        kvFiles == Len(kvUploads)
        kvStorage == SumOf(kvUploads, "size")
        rows == RowsOf(S.db, u)
    IN  IF dbFails THEN [files |-> kvFiles, storage |-> kvStorage]
        ELSE [files |-> kvFiles + Cardinality(rows),
              storage |-> kvStorage + SumFileSize(rows)]

(* calculateFileVersionStorage *)
RECURSIVE SumVersionBytes(_)
SumVersionBytes(versions) ==
    IF versions = <<>> THEN 0
    ELSE Head(versions).storage.contentBytes + Head(versions).storage.metadataBytes
         + SumVersionBytes(Tail(versions))

CalculateFileVersionStorage(S, fileId) == SumVersionBytes(GetFileVersions(S, fileId))

(* calculateUserVersionStorage: over the user's upload list, each entry     *)
(* looked up under storagePath || path                                      *)
RECURSIVE SumUploadVersions(_, _)
SumUploadVersions(S, uploads) ==
    IF uploads = <<>> THEN 0
    ELSE LET upload == Head(uploads)
             fileId == IF "storagePath" \in DOMAIN upload THEN upload.storagePath
                       ELSE upload.path
         IN  CalculateFileVersionStorage(S, fileId) + SumUploadVersions(S, Tail(uploads))

CalculateUserVersionStorage(S, u) ==
    SumUploadVersions(S, IF Has(S.userUploads, u) THEN S.userUploads[u] ELSE <<>>)

(* The role table of checkUserQuota and getUserQuota *)
Quotas(role) ==
    IF role = "premium" THEN [maxFiles |-> PremiumMaxFiles, maxStorage |-> PremiumMaxStorage]
    ELSE IF role = "admin" THEN [maxFiles |-> Unlimited, maxStorage |-> Unlimited]
    ELSE [maxFiles |-> UserMaxFiles, maxStorage |-> UserMaxStorage]

(* getUserQuota: the ledger is recomputed from the usage and the version    *)
(* records, and stored, on every query                                      *)
GetUserQuota(S, u, role, dbFails) ==
    LET quota == Quotas(role)
        usage == CalculateUserUsage(S, u, dbFails)
        versionStorage == CalculateUserVersionStorage(S, u)
        storageUsageNow == [files |-> usage.storage,
                            versions |-> versionStorage,
                            total |-> usage.storage + versionStorage]
    IN  [S |-> [S EXCEPT !.storageUsage = Put(@, u, storageUsageNow)],
         resp |-> [status |-> 200, json |-> TRUE, success |-> TRUE,
                   limits |-> quota, usage |-> usage,
                   storageBreakdown |-> storageUsageNow,
                   canUpload |-> (quota.maxFiles = Unlimited \/ usage.files < quota.maxFiles)]]

(* A quota check that lets the count reach one past the limit *)
CheckUserQuotaPastLimit(S, u, role, dbFails) ==
    LET quota == Quotas(role)
        usage == CalculateUserUsage(S, u, dbFails)
    IN  IF quota.maxFiles = -1 /\ quota.maxStorage = -1 THEN [canUpload |-> TRUE]
        ELSE IF quota.maxFiles > 0 /\ usage.files > quota.maxFiles
        THEN [canUpload |-> FALSE,
              reason |-> <<"File limit exceeded", usage.files, quota.maxFiles>>]
        ELSE IF quota.maxStorage > 0 /\ usage.storage >= quota.maxStorage
        THEN [canUpload |-> FALSE,
              reason |-> <<"Storage limit exceeded", usage.storage, quota.maxStorage>>]
        ELSE [canUpload |-> TRUE]

(* A quota check that tests the storage limit first *)
CheckUserQuotaStorageFirst(S, u, role, dbFails) ==
    LET quota == Quotas(role)
        usage == CalculateUserUsage(S, u, dbFails)
    IN  IF quota.maxFiles = -1 /\ quota.maxStorage = -1 THEN [canUpload |-> TRUE]
        ELSE IF quota.maxStorage > 0 /\ usage.storage >= quota.maxStorage
        THEN [canUpload |-> FALSE,
              reason |-> <<"Storage limit exceeded", usage.storage, quota.maxStorage>>]
        ELSE IF quota.maxFiles > 0 /\ usage.files >= quota.maxFiles
        THEN [canUpload |-> FALSE,
              reason |-> <<"File limit exceeded", usage.files, quota.maxFiles>>]
        ELSE [canUpload |-> TRUE]

(* checkUserQuota.  A reason is the text with its two numbers:              *)
(* `File limit exceeded (${files}/${max})`,                                 *)
(* `Storage limit exceeded (${usedMB}MB/${maxMB}MB)`.                       *)
CheckUserQuota(S, u, role, dbFails) ==
    LET quota == Quotas(role)
        usage == CalculateUserUsage(S, u, dbFails)
    IN  IF quota.maxFiles = -1 /\ quota.maxStorage = -1 THEN [canUpload |-> TRUE]
        ELSE IF quota.maxFiles > 0 /\ usage.files >= quota.maxFiles
        THEN [canUpload |-> FALSE,
              reason |-> <<"File limit exceeded", usage.files, quota.maxFiles>>]
        ELSE IF quota.maxStorage > 0 /\ usage.storage >= quota.maxStorage
        THEN [canUpload |-> FALSE,
              reason |-> <<"Storage limit exceeded", usage.storage, quota.maxStorage>>]
        ELSE [canUpload |-> TRUE]

(* trackUserUpload, its read: the stored list, or [] *)
TrackedUploads(S, u) == IF Has(S.userUploads, u) THEN S.userUploads[u] ELSE <<>>

(* trackUserUpload, after its read: the list that was read, with the new    *)
(* entry, is sorted, cut and written back                                   *)
TrackUserUploadPut(S, u, existingUploads, fileMetadata) ==
    LET pushed == Append(existingUploads,
                         Spread(fileMetadata, [createdAt |-> fileMetadata.uploadedAt]))
        recentUploads == Take(SortDescBy(pushed, "createdAt"), MaxTracked)
    IN  [S EXCEPT !.userUploads = Put(@, u, recentUploads)]

(* trackUserUpload *)
TrackUserUpload(S, u, fileMetadata) ==
    TrackUserUploadPut(S, u, TrackedUploads(S, u), fileMetadata)

(* removeFromUserUploads *)
RemoveFromUserUploads(S, u, id) ==
    LET existingUploads == IF Has(S.userUploads, u) THEN S.userUploads[u] ELSE <<>>
    IN  [S EXCEPT !.userUploads =
            Put(@, u, SelectSeq(existingUploads,
                                LAMBDA up : up.storagePath # id /\ up.path # id))]

(* buildSearchIndex: the catalogue of the static assets, of which the      *)
(* model keeps the first and the last entry                                 *)
BuildSearchIndex(t) ==
    <<[path |-> <<"assets", "applications", "icons", "jwlimited_aurora.png">>,
       name |-> "jwlimited_aurora.png", lastModified |-> t],
      [path |-> <<"_jsdelivery", "vanilla", "service", "quality.ts">>,
       name |-> "quality.ts", lastModified |-> t]>>

(* getSearchIndex: the stored index, or the catalogue when none is stored *)
GetSearchIndex(S, t) ==
    IF S.searchIndex # <<>> THEN S.searchIndex[1] ELSE BuildSearchIndex(t)

(* storeSearchIndex *)
StoreSearchIndex(S, index) == [S EXCEPT !.searchIndex = <<index>>]

(* updateSearchIndexWithNewAsset *)
UpdateSearchIndexWithNewAsset(S, asset, t) ==
    StoreSearchIndex(S, Append(GetSearchIndex(S, t), asset))

(* handleDirectUpload, its first write: the content under the clean path *)
PutDirectAsset(S, file, k) ==
    [S EXCEPT !.assetCache =
        Put(@, StripSuffix(GenerateComplexAssetPath(k)),
            [value |-> file[1].bytes, contentType |-> MimeTypeOf(file[1]),
             originalName |-> file[1].name])]

(* handleDirectUpload, the metadata object it stores and tracks *)
DirectFileMetadata(u, file, k, t) ==
    [name |-> file[1].name,
     path |-> GenerateComplexAssetPath(k),
     storagePath |-> StripSuffix(GenerateComplexAssetPath(k)),
     size |-> Len(file[1].bytes),
     type |-> MimeTypeOf(file[1]),
     uploadedAt |-> t,
     userId |-> u]

(* handleDirectUpload.  file is <<>> (no file part) or <<[name, bytes]>>;   *)
(* k numbers the path minted for this upload.                               *)
HandleDirectUpload(S, u, role, file, k, t, dbFails) ==
    IF file = <<>> THEN [S |-> S, resp |-> CreateErrorResponse(400, "No file provided")]
    ELSE IF Len(file[1].bytes) > MaxUploadSize
    THEN [S |-> S, resp |-> CreateErrorResponse(400, "File too large (max 25MB)")]
    ELSE
    LET fileBuffer == file[1].bytes
        obfuscatedPath == GenerateComplexAssetPath(k)
        cleanStoragePath == StripSuffix(obfuscatedPath)
        S1 == PutDirectAsset(S, file, k)
        fileMetadata == DirectFileMetadata(u, file, k, t)
        S2 == [S1 EXCEPT !.fileMeta = Put(@, cleanStoragePath, fileMetadata)]
        S3 == TrackUserUpload(S2, u, fileMetadata)
        updatedUsage == CalculateUserUsage(S3, u, dbFails)
    IN  [S |-> S3,
         resp |-> [status |-> 200, json |-> TRUE, success |-> TRUE,
                   file |-> [id |-> cleanStoragePath, path |-> obfuscatedPath,
                             size |-> Len(fileBuffer)],
                   used |-> updatedUsage]]

(* handleDatabaseUpload.  name is the form field "name" ("" when missing); *)
(* throws names the write that throws inside the handler's try: the INSERT  *)
(* of the row ("insert"), the put of the content ("put"), or none.          *)
HandleDatabaseUploadThrowing(S, u, role, file, name, k, t, dbFails, throws) ==
    IF file = <<>> THEN [S |-> S, resp |-> CreateErrorResponse(400, "No file provided")]
    ELSE IF name = ""
    THEN [S |-> S, resp |-> CreateErrorResponse(400, "Asset name is required")]
    ELSE IF Len(file[1].bytes) > MaxUploadSize
    THEN [S |-> S, resp |-> CreateErrorResponse(400, "File too large (max 25MB)")]
    ELSE
    LET fileBuffer == file[1].bytes
        obfuscatedPath == GenerateComplexAssetPath(k)
        assetId == RandomUUID(k)
        row == [name |-> name,
                description |-> "",
                file_path |-> obfuscatedPath,
                file_size |-> Len(fileBuffer),
                mime_type |-> MimeTypeOf(file[1]),
                updated_at |-> t,
                user_id |-> u]
        S1 == [S EXCEPT !.db = Put(@, assetId, row)]
        cleanStoragePath == StripSuffix(obfuscatedPath)
        S2 == [S1 EXCEPT !.assetCache =
                  Put(@, cleanStoragePath,
                      [value |-> fileBuffer, contentType |-> MimeTypeOf(file[1]),
                       originalName |-> file[1].name, assetId |-> assetId])]
        S3 == UpdateSearchIndexWithNewAsset(S2,
                  [id |-> assetId, name |-> name, path |-> obfuscatedPath,
                   storagePath |-> cleanStoragePath, size |-> Len(fileBuffer),
                   lastModified |-> t], t)
        updatedUsage == CalculateUserUsage(S3, u, dbFails)
    IN  IF throws = "insert"
        THEN [S |-> S, resp |-> CreateErrorResponse(500, "Database upload failed")]
        ELSE IF throws = "put"
        THEN [S |-> S1, resp |-> CreateErrorResponse(500, "Database upload failed")]
        ELSE
        [S |-> S3,
         resp |-> [status |-> 200, json |-> TRUE, success |-> TRUE,
                   file |-> [id |-> assetId, path |-> obfuscatedPath,
                             size |-> Len(fileBuffer)],
                   used |-> updatedUsage]]

(* handleDatabaseUpload when every write succeeds *)
HandleDatabaseUpload(S, u, role, file, name, k, t, dbFails) ==
    HandleDatabaseUploadThrowing(S, u, role, file, name, k, t, dbFails, "none")

(* An upload request that goes to its endpoint without the quota check *)
HandleUploadRequestUnchecked(S, u, role, endpoint, file, name, k, t, quotaDbFails, dbFails) ==
    IF endpoint = "direct" THEN HandleDirectUpload(S, u, role, file, k, t, dbFails)
    ELSE IF endpoint = "database"
    THEN HandleDatabaseUpload(S, u, role, file, name, k, t, dbFails)
    ELSE [S |-> S, resp |-> CreateErrorResponse(404, "Upload endpoint not found")]

(* handleUploadRequest, for an authenticated POST: the quota check, then    *)
(* the endpoint.  The quota check and the handler each query the usage;     *)
(* quotaDbFails and dbFails say whether the relational query of each throws *)
HandleUploadRequest(S, u, role, endpoint, file, name, k, t, quotaDbFails, dbFails) ==
    LET quotaCheck == CheckUserQuota(S, u, role, quotaDbFails) IN
    IF ~quotaCheck.canUpload
    THEN [S |-> S, resp |-> CreateErrorResponse(403, quotaCheck.reason)]
    ELSE IF endpoint = "direct" THEN HandleDirectUpload(S, u, role, file, k, t, dbFails)
    ELSE IF endpoint = "database"
    THEN HandleDatabaseUpload(S, u, role, file, name, k, t, dbFails)
    ELSE [S |-> S, resp |-> CreateErrorResponse(404, "Upload endpoint not found")]

(* deleteFile *)
DeleteFile(S, id, u) ==
    IF Has(S.db, id) /\ S.db[id].user_id = u
    THEN [S |-> [S EXCEPT !.db = Del(@, id),
                          !.assetCache = Del(@, StripSuffix(S.db[id].file_path))],
          resp |-> [status |-> 200, json |-> TRUE, success |-> TRUE]]
    ELSE IF Has(S.fileMeta, id) /\ Field(S.fileMeta[id], "userId") = u
    THEN LET kvFile == S.fileMeta[id]
             cleanPath == IF "storagePath" \in DOMAIN kvFile THEN kvFile.storagePath ELSE id
             S1 == [S EXCEPT !.fileMeta = Del(@, id),
                             !.assetCache = Del(@, cleanPath)]
         IN  [S |-> RemoveFromUserUploads(S1, u, id),
              resp |-> [status |-> 200, json |-> TRUE, success |-> TRUE]]
    ELSE [S |-> S, resp |-> CreateErrorResponse(404, "File not found or access denied")]

(* updateFileInfo: the row of the caller's own file takes the name,         *)
(* description, category and tags the body gives; a truthy test drops an    *)
(* empty name, category or tags                                             *)
UpdateFileInfo(S, id, u, updateData) ==
    IF Has(S.db, id) /\ S.db[id].user_id = u
    THEN LET given == {k \in DOMAIN updateData :
                          \/ k = "description"
                          \/ k \in {"name", "category", "tags"} /\ updateData[k] # ""}
             upd == DbUpdate(S.db, id, u, [k \in given |-> updateData[k]])
         IN  IF given = {}
             THEN [S |-> S, resp |-> [status |-> 200, json |-> TRUE, success |-> TRUE]]
             ELSE IF upd.ok
             THEN [S |-> [S EXCEPT !.db = upd.table],
                   resp |-> [status |-> 200, json |-> TRUE, success |-> TRUE]]
             ELSE [S |-> S,
                   resp |-> CreateErrorResponse(500, "Failed to update file information")]
    ELSE [S |-> S,
          resp |-> CreateErrorResponse(400,
                      "Direct upload files have limited update capabilities")]

----------------------------------------------------------------------------
(* Authentication.  An Authorization header is <<>> (absent) or             *)
(* <<scheme, token>>.  The verification service accepts the tokens of the   *)
(* users and answers {valid, user} for them.                                *)
TokenUser(token) ==
    IF token = "t1" THEN <<"u1">> ELSE IF token = "t2" THEN <<"u2">> ELSE <<>>

(* authHeader && authHeader.startsWith('Bearer ') *)
IsBearer(authorization) == authorization # <<>> /\ authorization[1] = "Bearer"

(* verifyUserAuthentication.  serviceFails: the call of the service throws  *)
VerifyUserAuthentication(authorization, serviceFails) ==
    IF ~IsBearer(authorization) THEN [success |-> FALSE]
    ELSE IF serviceFails THEN [success |-> FALSE]
    ELSE IF TokenUser(authorization[2]) # <<>>
    THEN [success |-> TRUE, user |-> TokenUser(authorization[2])[1]]
    ELSE [success |-> FALSE]

(* handleIndexRequest *)
HandleIndexRequest(S, method, authorization, t) ==
    IF method = "OPTIONS" THEN [S |-> S, resp |-> [status |-> 200]]
    ELSE IF method # "POST"
    THEN [S |-> S, resp |-> CreateErrorResponse(405, "Method not allowed")]
    ELSE IF ~IsBearer(authorization)
    THEN [S |-> S, resp |-> CreateErrorResponse(401, "Authentication required")]
    ELSE LET index == BuildSearchIndex(t)
         IN  [S |-> StoreSearchIndex(S, index),
              resp |-> [status |-> 200, json |-> TRUE, success |-> TRUE,
                        indexed |-> Len(index)]]

(* handleAPIRequest, for the endpoints behind authentication.  A request    *)
(* names its endpoint, method and Authorization header, and what the        *)
(* endpoint needs: the file part of an upload to /api/upload/direct, the    *)
(* file id of /api/files/{id}, /api/file-editor/{id}/content and            *)
(* /api/versions/{id}, the new content of an edit.  Of /api/files the model *)
(* has DELETE, of /api/user it has /quota.  /api/health is answered here;   *)
(* a path that is none of the endpoints is answered with 404.               *)
HandleAPIRequest(S, request, serviceFails, k, t) ==
    LET authResult == VerifyUserAuthentication(request.authorization, serviceFails)
        Denied(message) == [S |-> S, resp |-> CreateErrorResponse(401, message)]
        NotAllowed == [S |-> S, resp |-> CreateErrorResponse(405, "Method not allowed")]
    IN
    CASE request.endpoint = "index" ->
            HandleIndexRequest(S, request.method, request.authorization, t)
      [] request.endpoint = "upload" ->
            IF request.method = "OPTIONS" THEN [S |-> S, resp |-> [status |-> 200]]
            ELSE IF request.method # "POST" THEN NotAllowed
            ELSE IF ~authResult.success
            THEN Denied("Authentication required for uploads")
            ELSE HandleUploadRequest(S, authResult.user, Role(authResult.user), "direct",
                                     request.file, "a", k, t, FALSE, FALSE)
      [] request.endpoint = "files" ->
            IF ~authResult.success THEN Denied("Authentication required")
            ELSE (CASE request.method = "DELETE" ->
                           DeleteFile(S, request.id, authResult.user)
                    [] request.method \notin {"GET", "DELETE", "PUT"} -> NotAllowed)
      [] request.endpoint = "user" ->
            IF ~authResult.success THEN Denied("Authentication required")
            ELSE IF request.method = "GET"
            THEN GetUserQuota(S, authResult.user, Role(authResult.user), FALSE)
            ELSE [S |-> S, resp |-> CreateErrorResponse(404, "User endpoint not found")]
      [] request.endpoint = "file-editor" ->
            IF ~authResult.success THEN Denied("Authentication required")
            ELSE LET r == HandleFileEditorRequest(S, request.id, authResult.user,
                                                  "content", request.content, t)
                 IN  IF r.resp.status \in {403, 404} \/ request.method = "PUT" THEN r
                     ELSE NotAllowed
      [] request.endpoint = "versions" ->
            IF ~authResult.success THEN Denied("Authentication required")
            ELSE LET r == HandleVersionsList(S, request.id, authResult.user)
                 IN  IF r.resp.status \in {403, 404} \/ request.method = "GET" THEN r
                     ELSE NotAllowed
      [] request.endpoint = "health" ->
            [S |-> S,
             resp |-> [status |-> 200, json |-> TRUE,
                       body |-> [status |-> "healthy", timestamp |-> t,
                                 version |-> "2.0.0"]]]
      [] OTHER ->
            [S |-> S, resp |-> CreateErrorResponse(404, "API endpoint not found")]

----------------------------------------------------------------------------
(* Inputs *)
Patches == {[name |-> "b"], [description |-> "d"]}
Contents == {<<>>, <<1>>, <<2, 2>>}
UploadFiles == {<<>>, <<[name |-> "note.txt", bytes |-> <<7>>]>>}
UploadNames == {"", "a"}
NoSuchId == RandomUUID(0)
KnownIds == (DOMAIN db) \cup (DOMAIN fileMeta) \cup {NoSuchId}
NoRequest == [op |-> "none", status |-> 0]

(* What the history of a file records: the updates accepted since it was    *)
(* created, and whether anything else (restore, delete) has changed it      *)
Accepted(id, ok) ==
    IF ok /\ Has(hist, id) THEN Put(hist, id, [hist[id] EXCEPT !.updates = @ + 1]) ELSE hist
Disturbed(id, ok) ==
    IF ok /\ Has(hist, id) THEN Put(hist, id, [hist[id] EXCEPT !.onlyUpdates = FALSE]) ELSE hist

(* No cache entry, no counter, nothing in flight *)
CachesAreEmpty ==
    /\ kvCache = Empty
    /\ kvCacheMeta = Empty
    /\ cacheStats = [requests |-> 0, bandwidth |-> 0]
    /\ edgeCache = Empty
    /\ pendingKV = {}
    /\ pendingEdge = {}
    /\ inflight = Empty

StoresAre(S) ==
    /\ db = S.db
    /\ fileMeta = S.fileMeta
    /\ userUploads = S.userUploads
    /\ storageUsage = S.storageUsage
    /\ assetCache = S.assetCache
    /\ fileContent = S.fileContent
    /\ versionRec = S.versionRec
    /\ versionContent = S.versionContent
    /\ versionIndex = S.versionIndex
    /\ searchIndex = S.searchIndex

Init ==
    /\ StoresAre(EmptyStores)
    /\ CachesAreEmpty
    /\ nextId = 0
    /\ now = 0
    /\ nOps = 0
    /\ hist = Empty
    /\ last = NoRequest

----------------------------------------------------------------------------
(* Actions: one per request *)

Tick ==
    /\ now < MaxClock
    /\ now' = now + 1
    /\ UNCHANGED <<storeVars, cacheVars, inflight, nextId, nOps, hist, last>>

(* What the two backends hold for a user, read from the stores *)
Tally(S, u) ==
    LET list == IF Has(S.userUploads, u) THEN S.userUploads[u] ELSE <<>>
        rows == RowsOf(S.db, u)
    IN  [kvFiles |-> Len(list), kvBytes |-> SumOf(list, "size"),
         dbFiles |-> Cardinality(rows), dbBytes |-> SumFileSize(rows)]

(* POST /api/upload/direct and /api/upload/database *)
UploadReq(u, endpoint, file, name, quotaDbFails, dbFails) ==
    /\ LET r == HandleUploadRequest(St, u, Role(u), endpoint, file, name,
                                    nextId + 1, now, quotaDbFails, dbFails)
           ok == r.resp.status = 200
       IN  /\ Commit(r.S)
           /\ nextId' = IF ok THEN nextId + 1 ELSE nextId
           /\ hist' = IF ok /\ endpoint = "database"
                      THEN Put(hist, r.resp.file.id, [updates |-> 0, onlyUpdates |-> TRUE])
                      ELSE hist
           /\ last' = [op |-> "upload", user |-> u, endpoint |-> endpoint,
                       file |-> file, name |-> name,
                       status |-> r.resp.status, resp |-> r.resp,
                       before |-> Tally(St, u), after |-> Tally(r.S, u),
                       quotaDbFails |-> quotaDbFails, dbFails |-> dbFails,
                       wrote |-> (r.S # St)]
    /\ nOps' = nOps + 1
    /\ UNCHANGED <<cacheVars, inflight, now>>

(* PUT /api/file-editor/{id}/metadata *)
UpdateMetadataReq(u, id, updateData) ==
    /\ LET r == HandleFileEditorRequest(St, id, u, "metadata", updateData, now)
       IN  /\ Commit(r.S)
           /\ hist' = Accepted(id, r.resp.status = 200)
           /\ last' = [op |-> "updateMetadata", user |-> u, id |-> id,
                       status |-> r.resp.status, resp |-> r.resp,
                       pre |-> GetFileMetadata(St, id), arg |-> updateData,
                       wrote |-> (r.S # St)]
    /\ nOps' = nOps + 1
    /\ UNCHANGED <<cacheVars, inflight, nextId, now>>

(* PUT /api/file-editor/{id}/content *)
UpdateContentReq(u, id, newContent) ==
    /\ LET r == HandleFileEditorRequest(St, id, u, "content", newContent, now)
       IN  /\ Commit(r.S)
           /\ hist' = Accepted(id, r.resp.status = 200)
           /\ last' = [op |-> "updateContent", user |-> u, id |-> id,
                       status |-> r.resp.status, resp |-> r.resp,
                       pre |-> GetFileMetadata(St, id), arg |-> newContent,
                       replaced |-> IF Has(fileContent, id) THEN <<fileContent[id]>>
                                    ELSE <<>>,
                       wrote |-> (r.S # St)]
    /\ nOps' = nOps + 1
    /\ UNCHANGED <<cacheVars, inflight, nextId, now>>

(* POST /api/versions/{id}/restore *)
RestoreReq(u, id, version) ==
    /\ LET r == HandleVersionsRestore(St, id, u, version, now)
       IN  /\ Commit(r.S)
           /\ hist' = Disturbed(id, r.resp.status = 200)
           /\ last' = [op |-> "restore", user |-> u, id |-> id,
                       status |-> r.resp.status, resp |-> r.resp,
                       pre |-> GetFileMetadata(St, id), arg |-> version,
                       target |-> IF Has(versionRec, <<id, version>>)
                                  THEN <<versionRec[<<id, version>>]>> ELSE <<>>,
                       wrote |-> (r.S # St)]
    /\ nOps' = nOps + 1
    /\ UNCHANGED <<cacheVars, inflight, nextId, now>>

(* GET /api/versions/{id} *)
ListVersionsReq(u, id) ==
    /\ LET r == HandleVersionsList(St, id, u)
       IN  last' = [op |-> "listVersions", user |-> u, id |-> id,
                    status |-> r.resp.status, resp |-> r.resp]
    /\ nOps' = nOps + 1
    /\ UNCHANGED <<storeVars, cacheVars, inflight, nextId, now, hist>>

(* DELETE /api/files/{id} *)
DeleteReq(u, id) ==
    /\ LET r == DeleteFile(St, id, u)
       IN  /\ Commit(r.S)
           /\ hist' = Disturbed(id, r.resp.status = 200)
           /\ last' = [op |-> "delete", user |-> u, id |-> id,
                       status |-> r.resp.status, resp |-> r.resp,
                       pre |-> GetFileMetadata(St, id), wrote |-> (r.S # St)]
    /\ nOps' = nOps + 1
    /\ UNCHANGED <<cacheVars, inflight, nextId, now>>

(* PUT /api/files/{id} *)
UpdateInfoReq(u, id, updateData) ==
    /\ LET r == UpdateFileInfo(St, id, u, updateData)
       IN  /\ Commit(r.S)
           /\ hist' = Disturbed(id, r.S # St)
           /\ last' = [op |-> "updateInfo", user |-> u, id |-> id,
                       status |-> r.resp.status, resp |-> r.resp,
                       pre |-> GetFileMetadata(St, id), arg |-> updateData,
                       wrote |-> (r.S # St)]
    /\ nOps' = nOps + 1
    /\ UNCHANGED <<cacheVars, inflight, nextId, now>>

RestoreTargets(id) ==
    (IF Has(versionIndex, id) THEN Range(versionIndex[id]) ELSE {}) \cup {0}

Next ==
    \/ Tick
    \/ \E u \in Users, e \in {"direct", "database"}, f \in UploadFiles, n \in UploadNames :
          nOps < MaxOps /\ nextId < MaxUploads /\ UploadReq(u, e, f, n, FALSE, FALSE)
    \/ \E u \in Users, id \in KnownIds, p \in Patches :
          nOps < MaxOps /\ UpdateMetadataReq(u, id, p)
    \/ \E u \in Users, id \in KnownIds, c \in Contents :
          nOps < MaxOps /\ UpdateContentReq(u, id, c)
    \/ \E u \in Users, id \in KnownIds : \E v \in RestoreTargets(id) :
          nOps < MaxOps /\ RestoreReq(u, id, v)
    \/ \E u \in Users, id \in KnownIds :
          nOps < MaxOps /\ ListVersionsReq(u, id)
    \/ \E u \in Users, id \in KnownIds :
          nOps < MaxOps /\ DeleteReq(u, id)
    \/ \E u \in Users, id \in KnownIds, p \in Patches :
          nOps < MaxOps /\ UpdateInfoReq(u, id, p)

Spec == Init /\ [][Next]_vars

----------------------------------------------------------------------------
(* A file with a long version history.  The only files the ownership gate   *)
(* lets a user edit are database uploads, and a database upload reads back  *)
(* as version 1 for as long as its row exists; its key-value copy takes     *)
(* over once the row is deleted.  HistoryOf(h) is the state the handlers    *)
(* themselves produce by: a database upload, one content update, the delete *)
(* of the row, then h further updates, one clock tick apart, ending just    *)
(* before time 0.                                                           *)
HistId == RandomUUID(1)
HistFile == <<[name |-> "note.txt", bytes |-> <<7>>]>>

RECURSIVE HistGrow(_, _, _)
HistGrow(S, h, t) ==
    IF h = 0 THEN S
    ELSE LET grown == IF h % 2 = 0
                      THEN HandleFileEditorRequest(S, HistId, "u1", "metadata",
                                                   [name |-> "b"], t).S
                      ELSE HandleFileEditorRequest(S, HistId, "u1", "content",
                                                   <<1>>, t).S
         IN  IF Has(grown.fileMeta, HistId) THEN HistGrow(grown, h - 1, t + 1) ELSE S

HistoryOf(h) ==
    LET t0 == 0 - (h + 1)
        uploaded == HandleUploadRequest(EmptyStores, "u1", Role("u1"), "database",
                                        HistFile, "a", 1, t0, FALSE, FALSE).S
        edited == HandleFileEditorRequest(uploaded, HistId, "u1", "content", <<2, 2>>, t0).S
        deleted == DeleteFile(edited, HistId, "u1").S
    IN  HistGrow(deleted, h, t0 + 1)

MaxHistOps == 3
HistLens == {0, 2, MaxVersions - 1, MaxVersions}

InitHist ==
    /\ \E h \in HistLens : StoresAre(HistoryOf(h))
    /\ CachesAreEmpty
    /\ nextId = 1
    /\ now = 0
    /\ nOps = 0
    /\ hist = Empty
    /\ last = NoRequest

(* Restore targets tried on the long history: the newest and the oldest     *)
(* indexed version, the live version, and a version that does not exist     *)
HistRestoreTargets ==
    LET index == IF Has(versionIndex, HistId) THEN versionIndex[HistId] ELSE <<>>
        live == GetFileMetadata(St, HistId)
    IN  (IF index = <<>> THEN {} ELSE {index[1], index[Len(index)]})
        \cup (IF live = <<>> THEN {} ELSE {live[1].version})
        \cup {0}

NextHist ==
    \/ Tick
    \/ \E p \in Patches : nOps < MaxHistOps /\ UpdateMetadataReq("u1", HistId, p)
    \/ \E c \in Contents : nOps < MaxHistOps /\ UpdateContentReq("u1", HistId, c)
    \/ \E v \in HistRestoreTargets : nOps < MaxHistOps /\ RestoreReq("u1", HistId, v)
    \/ nOps < MaxHistOps /\ ListVersionsReq("u1", HistId)

SpecHist == InitHist /\ [][NextHist]_vars

----------------------------------------------------------------------------
(* The response caches.  A handler reads the caches as one value C and      *)
(* answers with its response, the layers it consulted in order, and the     *)
(* cache writes it started without awaiting them.                           *)
Ca == [kvCache |-> kvCache, kvCacheMeta |-> kvCacheMeta, edgeCache |-> edgeCache]

TtlFiles == 3600
TtlApi == 300
TtlStatic == 86400
TtlDefault == 1800

CacheTtlImages == 2592000
CacheTtlFonts == 31536000
CacheTtlStylesheets == 86400
CacheTtlScripts == 86400
CacheTtlDocuments == 3600
CacheTtlDefault == 3600

(* String.prototype.includes('/' + segment + '/') on a path of segments *)
IncludesSegment(path, segment) == \E i \in 1..(Len(path) - 1) : path[i] = segment

(* getWorkerCacheTTL, in seconds *)
GetWorkerCacheTTL(workerPath) ==
    IF IncludesSegment(workerPath, "attachments") \/ IncludesSegment(workerPath, "files")
    THEN TtlFiles
    ELSE IF IncludesSegment(workerPath, "api") THEN TtlApi
    ELSE IF IncludesSegment(workerPath, "static") \/ IncludesSegment(workerPath, "assets")
    THEN TtlStatic
    ELSE TtlDefault

(* getCacheTTL, in seconds *)
GetCacheTTL(pathname) ==
    LET ext == Extension(pathname)
    IN  IF ext \in {<<".", "j", "p", "g">>, <<".", "j", "p", "e", "g">>, <<".", "p", "n", "g">>,
                    <<".", "g", "i", "f">>, <<".", "w", "e", "b", "p">>,
                    <<".", "a", "v", "i", "f">>, <<".", "s", "v", "g">>, <<".", "i", "c", "o">>}
        THEN CacheTtlImages
        ELSE IF ext \in {<<".", "w", "o", "f", "f">>, <<".", "w", "o", "f", "f", "2">>,
                         <<".", "t", "t", "f">>, <<".", "e", "o", "t">>, <<".", "o", "t", "f">>}
        THEN CacheTtlFonts
        ELSE IF ext = <<".", "c", "s", "s">> THEN CacheTtlStylesheets
        ELSE IF ext \in {<<".", "j", "s">>, <<".", "m", "j", "s">>} THEN CacheTtlScripts
        ELSE IF ext \in {<<".", "h", "t", "m", "l">>, <<".", "h", "t", "m">>}
        THEN CacheTtlDocuments
        ELSE CacheTtlDefault

(* generateETagFromBuffer / generateETag: a digest of the body; distinct    *)
(* bodies are taken to have distinct digests                                *)
GenerateETagFromBuffer(body) == <<"sha256">> \o body

(* Every status taken for a success *)
AlwaysOk(status) == TRUE

(* Response.ok *)
Ok(status) == status >= 200 /\ status <= 299

(* The headers the model follows: X-Cache-Status, X-Cache-Layer, ETag and   *)
(* the max-age of Cache-Control (-1 when the header is absent)              *)
NoHeaders == [xCacheStatus |-> "", xCacheLayer |-> "", etag |-> <<>>, maxAge |-> 0 - 1]

(* An expiry check that never fires *)
NeverExpired(expiresAt, t) == FALSE

(* An expiry check that always fires *)
AlwaysExpired(expiresAt, t) == TRUE

(* isCacheExpired *)
IsCacheExpired(expiresAt, t) == t > expiresAt

(* getFromKVCache: <<>> for null *)
GetFromKVCache(C, cacheKey, t) ==
    IF ~Has(C.kvCacheMeta, cacheKey)
       \/ IsCacheExpired(C.kvCacheMeta[cacheKey].value.expires, t)
    THEN <<>>
    ELSE IF Has(C.kvCache, cacheKey) THEN <<C.kvCache[cacheKey].value>> ELSE <<>>

(* deserializeKVResponse *)
DeserializeKVResponse(cachedData) ==
    [status |-> cachedData.status, body |-> cachedData.body, headers |-> cachedData.headers]

(* storeInKVCache up to its first await: the expiry is fixed when the call  *)
(* is made; the two writes happen later (RunKVStore)                        *)
StoreInKVCache(cacheKey, response, workerPath, t) ==
    LET cacheTTL == GetWorkerCacheTTL(workerPath)
    IN  [cacheKey |-> cacheKey,
         responseData |-> [status |-> response.status, headers |-> response.headers,
                           body |-> response.body],
         metadata |-> [expires |-> t + cacheTTL * 1000, size |-> Len(response.body),
                       workerPath |-> workerPath],
         cacheTTL |-> cacheTTL]

(* cache.put(cacheKey, response) before it settles *)
CachePut(cacheKey, response) == [cacheKey |-> cacheKey, response |-> response]

(* cache.match: <<>> for undefined *)
CacheMatch(C, cacheKey) ==
    IF Has(C.edgeCache, cacheKey) THEN <<C.edgeCache[cacheKey]>> ELSE <<>>

(* What a handler hands back *)
Answer(resp, consulted, kvStores, edgePuts) ==
    [resp |-> resp, consulted |-> consulted, kvStores |-> kvStores, edgePuts |-> edgePuts]

(* A key of the two KV namespaces: worker:<name>:<path>:<hash> or           *)
(* external:<hash>:<url>                                                    *)
CacheKeyString(kind, name, path, hash) ==
    [kind |-> kind, name |-> name, path |-> path, hash |-> hash]

(* A key of the edge cache: the request URL, with the suffix                *)
(* "-worker-proxy" on the worker-proxy path                                 *)
EdgeCacheKey(pathParts, suffix) == [url |-> pathParts, suffix |-> suffix]

WorkerBindings == {"mts-stv0", "emailworker", "smpweb-2x-auth", "authworker", "auth", "serix"}

(* The service bindings of the environment *)
EnvBindings == {"MTS_STV0_WORKER", "SMPWEB_2X_AUTH_WORKER"}

(* The property names an object literal inherits from Object.prototype, and *)
(* what stands for the inherited value (a function or the prototype)        *)
ObjectPrototypeNames ==
    {"constructor", "toString", "toLocaleString", "valueOf", "hasOwnProperty",
     "isPrototypeOf", "propertyIsEnumerable", "__proto__"}
InheritedValue == "[inherited from Object.prototype]"

(* workerBindings[workerName]: <<>> is undefined.  The table is an object   *)
(* literal, so the lookup also finds the names it inherits.                 *)
LookupBinding(workerName) ==
    IF workerName \in {"mts-stv0", "emailworker"} THEN <<"MTS_STV0_WORKER">>
    ELSE IF workerName \in WorkerBindings THEN <<"SMPWEB_2X_AUTH_WORKER">>
    ELSE IF workerName \in ObjectPrototypeNames THEN <<InheritedValue>>
    ELSE <<>>

(* hashRequest *)
HashRequest(request) == ComputeHash(request.method, request.pathParts, request.authorization)

(* The KV cache key of a worker-proxy request *)
WorkerCacheKey(request) ==
    CacheKeyString("worker", request.pathParts[2], Drop(request.pathParts, 2),
                   HashRequest(request))

(* optimizeWorkerResponse *)
OptimizeWorkerResponse(response, request) ==
    LET etag == GenerateETagFromBuffer(response.body)
        headers == [response.headers EXCEPT !.etag = etag]
    IN  IF request.ifNoneMatch = <<etag>>
        THEN [status |-> 304, body |-> <<>>, headers |-> headers]
        ELSE [status |-> response.status, body |-> response.body, headers |-> headers]

(* The two layers tried in the wrong order: the edge cache before KV *)
WorkerProxyLookupEdgeFirst(C, request, t) ==
    LET cacheKeyString == WorkerCacheKey(request)
        kvCachedData == GetFromKVCache(C, cacheKeyString, t)
        cachedResponse == CacheMatch(C, EdgeCacheKey(request.pathParts, "-worker-proxy"))
    IN  IF cachedResponse # <<>>
        THEN LET newResponse == [cachedResponse[1] EXCEPT
                                     !.headers.xCacheStatus = "CACHE-HIT",
                                     !.headers.xCacheLayer = "EdgeCache"]
             IN  <<Answer(newResponse, <<"EdgeCache">>,
                          {StoreInKVCache(cacheKeyString, newResponse,
                                          Drop(request.pathParts, 2), t)}, {})>>
        ELSE IF kvCachedData # <<>>
        THEN <<Answer([DeserializeKVResponse(kvCachedData[1]) EXCEPT
                           !.headers.xCacheStatus = "KV-HIT",
                           !.headers.xCacheLayer = "KV"],
                      <<"EdgeCache", "KV">>, {}, {})>>
        ELSE <<>>

(* handleWorkerProxyRequest, the cache layers of a GET: KV, then the edge   *)
(* cache, whose hit is copied to KV without being awaited.  <<>> when both  *)
(* miss.                                                                    *)
WorkerProxyLookup(C, request, t) ==
    LET cacheKeyString == WorkerCacheKey(request)
        kvCachedData == GetFromKVCache(C, cacheKeyString, t)
        cachedResponse == CacheMatch(C, EdgeCacheKey(request.pathParts, "-worker-proxy"))
    IN  IF kvCachedData # <<>>
        THEN <<Answer([DeserializeKVResponse(kvCachedData[1]) EXCEPT
                           !.headers.xCacheStatus = "KV-HIT",
                           !.headers.xCacheLayer = "KV"],
                      <<"KV">>, {}, {})>>
        ELSE IF cachedResponse # <<>>
        THEN LET newResponse == [cachedResponse[1] EXCEPT
                                     !.headers.xCacheStatus = "CACHE-HIT",
                                     !.headers.xCacheLayer = "EdgeCache"]
             IN  <<Answer(newResponse, <<"KV", "EdgeCache">>,
                          {StoreInKVCache(cacheKeyString, newResponse,
                                          Drop(request.pathParts, 2), t)}, {})>>
        ELSE <<>>

(* handleWorkerProxyRequest.  `upstream` is the answer the bound worker      *)
(* gives if it is asked.  The binding of every configured name is present.  *)
HandleWorkerProxyRequest(C, request, upstream, t) ==
    LET pathParts == request.pathParts IN
    IF Len(pathParts) < 2
    THEN Answer(CreateErrorResponse(400, "Invalid proxy path"), <<>>, {}, {})
    ELSE
    LET workerName == pathParts[2]
        workerPath == Drop(pathParts, 2)
    IN
    IF LookupBinding(workerName) = <<>>
    THEN Answer(CreateErrorResponse(404,
                    <<"Worker", workerName, "not found or not configured">>), <<>>, {}, {})
    ELSE IF LookupBinding(workerName)[1] \notin EnvBindings
    THEN Answer(CreateErrorResponse(500,
                    <<"Worker binding", LookupBinding(workerName)[1], "not available">>),
                <<>>, {}, {})
    ELSE
    LET cacheKeyString == WorkerCacheKey(request)
        isGet == request.method = "GET"
        cacheHit == IF isGet THEN WorkerProxyLookup(C, request, t) ELSE <<>>
        looked == IF isGet THEN <<"KV", "EdgeCache">> ELSE <<>>
    IN
    IF cacheHit # <<>> THEN cacheHit[1]
    ELSE IF ~Ok(upstream.status)
    THEN Answer([status |-> upstream.status, body |-> upstream.body,
                 headers |-> upstream.headers],
                looked \o <<"Origin">>, {}, {})
    ELSE
    LET optimizedResponse == OptimizeWorkerResponse(upstream, request) IN
    IF isGet /\ optimizedResponse.status = 200
    THEN LET cached == [optimizedResponse EXCEPT
                            !.headers.maxAge = GetWorkerCacheTTL(workerPath),
                            !.headers.xCacheStatus = "MISS",
                            !.headers.xCacheLayer = "Origin"]
         IN  Answer(cached, looked \o <<"Origin">>,
                    {StoreInKVCache(cacheKeyString, cached, workerPath, t)},
                    {CachePut(EdgeCacheKey(pathParts, "-worker-proxy"), cached)})
    ELSE Answer(optimizedResponse, looked \o <<"Origin">>, {}, {})

(* String.prototype.startsWith and includes, on characters *)
StartsWith(text, prefix) ==
    Len(text) >= Len(prefix) /\ SubSeq(text, 1, Len(prefix)) = prefix
Includes(text, part) ==
    \E i \in 1..(Len(text) - Len(part) + 1) : SubSeq(text, i, i + Len(part) - 1) = part

(* isBlockedHost, for lower-case host names: localhost, the private and     *)
(* link-local IPv4 ranges, the IPv6 local addresses, the metadata services  *)
IsBlockedHost(hostname) ==
    \/ hostname = CharsOf("localhost")
    \/ StartsWith(hostname, <<"1", "2", "7", ".">>)
    \/ StartsWith(hostname, <<"1", "0", ".">>)
    \/ \E second \in {<<"1", d>> : d \in {"6", "7", "8", "9"}}
                 \cup {<<"2", d>> : d \in {"0", "1", "2", "3", "4", "5", "6", "7", "8", "9"}}
                 \cup {<<"3", d>> : d \in {"0", "1"}} :
          StartsWith(hostname, <<"1", "7", "2", ".">> \o second \o <<".">>)
    \/ StartsWith(hostname, <<"1", "9", "2", ".", "1", "6", "8", ".">>)
    \/ StartsWith(hostname, <<"1", "6", "9", ".", "2", "5", "4", ".">>)
    \/ hostname = <<":", ":", "1">>
    \/ StartsWith(hostname, <<"f", "c", "0", "0", ":">>)
    \/ StartsWith(hostname, <<"f", "e", "8", "0", ":">>)
    \/ Includes(hostname, <<"m", "e", "t", "a", "d", "a", "t", "a", ".", "g", "o", "o", "g",
                            "l", "e", ".", "i", "n", "t", "e", "r", "n", "a", "l">>)
    \/ Includes(hostname, <<"1", "6", "9", ".", "2", "5", "4", ".", "1", "6", "9", ".",
                            "2", "5", "4">>)

(* The KV cache key of an external-fetch request /fetch/<protocol>/<host>/.. *)
ExternalCacheKey(request) ==
    CacheKeyString("external", "", Drop(request.pathParts, 1), HashRequest(request))

(* optimizeExternalResponse: status and body kept, headers rebuilt; of the  *)
(* headers followed here ETag and Cache-Control are carried over            *)
OptimizeExternalResponse(response) ==
    [status |-> response.status, body |-> response.body,
     headers |-> [NoHeaders EXCEPT !.etag = response.headers.etag,
                                   !.maxAge = response.headers.maxAge]]

ExternalTtlCap == 86400
ExternalTtlImages == 3600
ExternalTtlCode == 1800
ExternalTtlFonts == 7200
ExternalTtlDefault == 900

(* getExternalCacheTTL, for an upstream that sends no Content-Type *)
GetExternalCacheTTL(pathname, response) ==
    LET ext == Extension(pathname)
    IN  IF response.headers.maxAge >= 0
        THEN (IF response.headers.maxAge < ExternalTtlCap THEN response.headers.maxAge
              ELSE ExternalTtlCap)
        ELSE IF ext \in {<<".", "j", "p", "g">>, <<".", "j", "p", "e", "g">>,
                         <<".", "p", "n", "g">>, <<".", "g", "i", "f">>,
                         <<".", "w", "e", "b", "p">>, <<".", "s", "v", "g">>,
                         <<".", "i", "c", "o">>}
        THEN ExternalTtlImages
        ELSE IF ext \in {<<".", "c", "s", "s">>, <<".", "j", "s">>} THEN ExternalTtlCode
        ELSE IF ext \in {<<".", "w", "o", "f", "f">>, <<".", "w", "o", "f", "f", "2">>,
                         <<".", "t", "t", "f">>, <<".", "e", "o", "t">>, <<".", "o", "t", "f">>}
        THEN ExternalTtlFonts
        ELSE ExternalTtlDefault

(* handleExternalFetch.  A path of one segment after /fetch is an encoded   *)
(* URL; none of the words used here is one, so `new URL` rejects it.        *)
HandleExternalFetch(C, request, upstream, t) ==
    LET pathParts == request.pathParts IN
    IF Len(pathParts) < 2
    THEN Answer(CreateErrorResponse(400, "Invalid fetch path"), <<>>, {}, {})
    ELSE IF Len(pathParts) = 2
    THEN Answer(CreateErrorResponse(400, "Invalid URL provided"), <<>>, {}, {})
    ELSE IF IsBlockedHost(CharsOf(pathParts[3]))
    THEN Answer(CreateErrorResponse(403, "Access to this host is not allowed"), <<>>, {}, {})
    ELSE
    LET cacheKey == ExternalCacheKey(request)
        isGet == request.method = "GET"
        cachedData == IF isGet THEN GetFromKVCache(C, cacheKey, t) ELSE <<>>
        looked == IF isGet THEN <<"KV">> ELSE <<>>
    IN
    IF cachedData # <<>>
    THEN Answer([DeserializeKVResponse(cachedData[1]) EXCEPT !.headers.xCacheStatus = "KV-HIT"],
                <<"KV">>, {}, {})
    ELSE IF ~Ok(upstream.status)
    THEN Answer(CreateErrorResponse(upstream.status, "External fetch failed"),
                looked \o <<"Origin">>, {}, {})
    ELSE
    LET optimizedResponse == OptimizeExternalResponse(upstream) IN
    IF isGet /\ optimizedResponse.status = 200
    THEN LET cached == [optimizedResponse EXCEPT
                            !.headers.maxAge =
                                GetExternalCacheTTL(Pathname(Drop(pathParts, 3)), upstream),
                            !.headers.xCacheStatus = "MISS"]
         IN  Answer(cached, looked \o <<"Origin">>,
                    {StoreInKVCache(cacheKey, cached, <<"external">>, t)}, {})
    ELSE Answer(optimizedResponse, looked \o <<"Origin">>, {}, {})

(* optimizeResponse, for a request without Range header: a 304 when the     *)
(* client's If-None-Match is the ETag, else the body with status 200        *)
OptimizeResponse(response, pathname, request) ==
    LET etag == GenerateETagFromBuffer(response.body)
        headers == [response.headers EXCEPT !.etag = etag]
    IN  IF request.ifNoneMatch = <<etag>>
        THEN [status |-> 304, body |-> <<>>, headers |-> headers]
        ELSE [status |-> 200, body |-> response.body,
              headers |-> [headers EXCEPT !.maxAge = IF @ >= 0 THEN @
                                                     ELSE GetCacheTTL(pathname)]]

(* handleAssetRequest.  `upstream` is the answer of the ASSETS binding.     *)
HandleAssetRequest(C, request, upstream) ==
    LET cacheKey == EdgeCacheKey(request.pathParts, "")
        cachedResponse == CacheMatch(C, cacheKey)
    IN
    IF cachedResponse # <<>>
    THEN Answer([cachedResponse[1] EXCEPT !.headers.xCacheStatus = "HIT"],
                <<"EdgeCache">>, {}, {})
    ELSE IF ~Ok(upstream.status)
    THEN Answer(CreateErrorResponse(404, "Asset not found"),
                <<"EdgeCache", "Origin">>, {}, {})
    ELSE
    LET pathname == Pathname(request.pathParts)
        optimized == OptimizeResponse(upstream, pathname, request)
        cached == [optimized EXCEPT !.headers.maxAge = GetCacheTTL(pathname)]
    IN  Answer([cached EXCEPT !.headers.xCacheStatus = "MISS"],
                <<"EdgeCache", "Origin">>, {}, {CachePut(cacheKey, cached)})

----------------------------------------------------------------------------
(* Uploaded assets.  A request for one carries its path, the If-None-Match  *)
(* header (<<>> when absent, else <<etag>>) and the Range header (<<>> when *)
(* absent, else <<[start, end]>>: the texts on the two sides of the dash of *)
(* "bytes=start-end", each <<>> when empty or <<n>> for the decimal n).     *)

(* parseInt(text, 10) || fallback: NaN and 0 both give the fallback *)
ParseIntOr(part, fallback) ==
    IF part = <<>> THEN fallback
    ELSE IF part[1] = 0 THEN fallback
    ELSE part[1]

(* ArrayBuffer.prototype.slice(begin, end) for 0 <= begin *)
Slice(body, begin, end) ==
    LET to == IF end > Len(body) THEN Len(body) ELSE end
    IN  IF begin >= to THEN <<>> ELSE SubSeq(body, begin + 1, to)

(* handleRangeRequest.  The Content-Range of a 416 is "bytes */size", that  *)
(* of a 206 is "bytes start-end/size".                                      *)
HandleRangeRequest(body, range, contentType) ==
    LET fileSize == Len(body)
        start == ParseIntOr(range.start, 0)
        end == ParseIntOr(range.end, fileSize - 1)
    IN  IF start >= fileSize \/ end >= fileSize
        THEN [status |-> 416, text |-> "Range Not Satisfiable",
              contentRange |-> [size |-> fileSize]]
        ELSE [status |-> 206, body |-> Slice(body, start, end + 1),
              contentRange |-> [start |-> start, end |-> end, size |-> fileSize],
              contentLength |-> (end - start) + 1,
              contentType |-> contentType]

(* pathname.endsWith('/object/live.m3u8') *)
EndsWithSuffix(path) ==
    /\ Len(path) >= Len(RoutingSuffix)
    /\ SubSeq(path, Len(path) - Len(RoutingSuffix) + 1, Len(path)) = RoutingSuffix

(* The key the two lookups below clean a pathname to *)
CleanPathname(path) == IF EndsWithSuffix(path) THEN StripSuffix(path) ELSE path

(* isObfuscatedAssetPath *)
IsObfuscatedAssetPath(S, path) == Has(S.assetCache, CleanPathname(path))

(* handleRequest: the paths that go to handleUploadedAssetRequest *)
IsUploadedAssetRoute(S, path) ==
    \/ IsObfuscatedAssetPath(S, path)
    \/ (path # <<>> /\ path[1] = "prod")
    \/ (\E i \in 1..(Len(path) - 1) : SubSeq(path, i, i + 1) = RoutingSuffix)
    \/ (Len(path) >= 2 /\ path[1] = "assets" /\ path[2] \in {"uploads", "custom"})

(* A comparison that never finds the client's copy current *)
NeverMatches(clientETag, etag) == FALSE

(* clientETag === etag *)
ETagMatches(clientETag, etag) == clientETag = <<etag>>

(* handleUploadedAssetRequest *)
HandleUploadedAssetRequest(S, request) ==
    LET pathname == request.path
        cleanPathname == CleanPathname(pathname)
    IN
    IF ~Has(S.assetCache, cleanPathname)
    THEN IF Has(S.fileMeta, cleanPathname)
         THEN CreateErrorResponse(404, "Uploaded asset not found: content not available")
         ELSE CreateErrorResponse(404, "Asset not found")
    ELSE
    LET kvResult == S.assetCache[cleanPathname]
        fileData == kvResult.value
        contentType == IF "contentType" \in DOMAIN kvResult THEN kvResult.contentType
                       ELSE GetContentType(Pathname(pathname))
        etag == GenerateETagFromBuffer(fileData)
    IN  IF ETagMatches(request.ifNoneMatch, etag)
        THEN [status |-> 304, etag |-> etag, contentType |-> contentType]
        ELSE IF request.range # <<>> /\ IsMediaFile(contentType)
        THEN Spread(HandleRangeRequest(fileData, request.range[1], contentType),
                    [etag |-> etag])
        ELSE [status |-> 200, body |-> fileData, etag |-> etag,
              contentType |-> contentType]

----------------------------------------------------------------------------
(* Requests and upstream answers tried against the caches *)
Body1 == <<1>>
Body2 == <<2, 2>>
ErrorBody == <<4, 0, 4>>

Upstreams ==
    {[status |-> 200, body |-> Body1, headers |-> NoHeaders],
     [status |-> 200, body |-> Body2, headers |-> NoHeaders],
     [status |-> 404, body |-> ErrorBody, headers |-> NoHeaders],
     [status |-> 500, body |-> ErrorBody, headers |-> NoHeaders]}

Request(method, pathParts, authorization, ifNoneMatch) ==
    [method |-> method, pathParts |-> pathParts, authorization |-> authorization,
     ifNoneMatch |-> ifNoneMatch]

WorkerRequests ==
    {Request("GET", <<"worker", "auth", "api", "data">>, "", <<>>),
     Request("GET", <<"worker", "auth", "api", "data">>, "Bearer t1", <<>>),
     Request("GET", <<"worker", "auth", "api", "data">>, "",
             <<GenerateETagFromBuffer(Body1)>>),
     Request("POST", <<"worker", "auth", "api", "data">>, "", <<>>),
     Request("GET", <<"worker", "cdn", "page">>, "", <<>>),
     Request("GET", <<"proxy", "constructor", "page">>, "", <<>>)}

ExternalRequests ==
    {Request("GET", <<"fetch", "https", "example.com", "a.png">>, "", <<>>),
     Request("POST", <<"fetch", "https", "example.com", "a.png">>, "", <<>>),
     Request("GET", <<"fetch", "https", "localhost", "a.png">>, "", <<>>)}

AssetRequests == {Request("GET", <<"logo.png">>, "", <<>>)}

MaxCacheOps == 2

(* The clock moves from the start to the moment an entry stored at the      *)
(* start with the shortest worker TTL expires, and on from there            *)
CacheHorizon == TtlApi * 1000 + MaxClock
NextInstant == IF now < TtlApi * 1000 THEN TtlApi * 1000 ELSE now + 1

(* What the caches held for a request when it arrived *)
Held(kvKey, edgeKey) ==
    [meta |-> IF Has(kvCacheMeta, kvKey) THEN <<kvCacheMeta[kvKey].value>> ELSE <<>>,
     body |-> Has(kvCache, kvKey),
     edge |-> Has(edgeCache, edgeKey)]

Served(op, request, upstream, r, held) ==
    [op |-> op, request |-> request, status |-> r.resp.status, resp |-> r.resp,
     consulted |-> r.consulted,
     upstream |-> IF "Origin" \in Range(r.consulted) THEN <<upstream>> ELSE <<>>,
     kvStores |-> r.kvStores, edgePuts |-> r.edgePuts,
     held |-> held, at |-> now]

CacheRequestDone(r) ==
    /\ pendingKV' = pendingKV \cup r.kvStores
    /\ pendingEdge' = pendingEdge \cup r.edgePuts
    /\ nOps' = nOps + 1
    /\ UNCHANGED <<storeVars, kvCache, kvCacheMeta, cacheStats, edgeCache, inflight, nextId, now, hist>>

(* /worker/{name}/{path} *)
WorkerProxyReq(request, upstream) ==
    LET r == HandleWorkerProxyRequest(Ca, request, upstream, now)
    IN  /\ last' = Served("workerProxy", request, upstream, r,
                          Held(WorkerCacheKey(request),
                               EdgeCacheKey(request.pathParts, "-worker-proxy")))
        /\ CacheRequestDone(r)

(* /fetch/{protocol}/{host}/{path} *)
ExternalFetchReq(request, upstream) ==
    LET r == HandleExternalFetch(Ca, request, upstream, now)
    IN  /\ last' = Served("externalFetch", request, upstream, r,
                          Held(ExternalCacheKey(request),
                               EdgeCacheKey(request.pathParts, "")))
        /\ CacheRequestDone(r)

(* Any other path: a static asset *)
AssetReq(request, upstream) ==
    LET r == HandleAssetRequest(Ca, request, upstream)
    IN  /\ last' = Served("asset", request, upstream, r,
                          Held(CacheKeyString("static", "", request.pathParts, <<>>),
                               EdgeCacheKey(request.pathParts, "")))
        /\ CacheRequestDone(r)

(* The rest of a storeInKVCache call: two puts with expirationTtl, each of  *)
(* which may fail, and the statistics update once both have succeeded       *)
RunKVStore(task, bodyStored, metaStored) ==
    /\ task \in pendingKV
    /\ pendingKV' = pendingKV \ {task}
    /\ kvCache' = IF bodyStored
                  THEN Put(kvCache, task.cacheKey,
                           [value |-> task.responseData,
                            expiration |-> now + task.cacheTTL * 1000])
                  ELSE kvCache
    /\ kvCacheMeta' = IF metaStored
                      THEN Put(kvCacheMeta, task.cacheKey,
                               [value |-> task.metadata,
                                expiration |-> now + task.cacheTTL * 1000])
                      ELSE kvCacheMeta
    /\ cacheStats' = IF bodyStored /\ metaStored
                     THEN [requests |-> cacheStats.requests + 1,
                           bandwidth |-> cacheStats.bandwidth + task.metadata.size]
                     ELSE cacheStats
    /\ UNCHANGED <<storeVars, edgeCache, pendingEdge, inflight, nextId, now, nOps, hist, last>>

(* A cache.put that the handler waits for: a put that fails ends the       *)
(* handler before it starts the store in KV, and the request fails          *)
RunCachePutAwaited(task, stored) ==
    /\ task \in pendingEdge
    /\ pendingEdge' = pendingEdge \ {task}
    /\ edgeCache' = IF stored THEN Put(edgeCache, task.cacheKey, task.response) ELSE edgeCache
    /\ pendingKV' = IF stored THEN pendingKV ELSE {}
    /\ last' = IF stored THEN last
               ELSE CreateErrorResponse(500, "Failed to proxy request to worker")
                    @@ [op |-> "workerProxy"]
    /\ UNCHANGED <<storeVars, kvCache, kvCacheMeta, cacheStats, inflight, nextId, now, nOps, hist>>

(* The rest of a cache.put call *)
RunCachePut(task, stored) ==
    /\ task \in pendingEdge
    /\ pendingEdge' = pendingEdge \ {task}
    /\ edgeCache' = IF stored THEN Put(edgeCache, task.cacheKey, task.response) ELSE edgeCache
    /\ UNCHANGED <<storeVars, kvCache, kvCacheMeta, cacheStats, pendingKV,
                   inflight, nextId, now, nOps, hist, last>>

(* KV drops an entry whose expirationTtl has run out *)
KVExpireBody(key) ==
    /\ Has(kvCache, key) /\ now >= kvCache[key].expiration
    /\ kvCache' = Del(kvCache, key)
    /\ UNCHANGED <<storeVars, kvCacheMeta, cacheStats, edgeCache, pendingKV, pendingEdge,
                   inflight, nextId, now, nOps, hist, last>>

KVExpireMeta(key) ==
    /\ Has(kvCacheMeta, key) /\ now >= kvCacheMeta[key].expiration
    /\ kvCacheMeta' = Del(kvCacheMeta, key)
    /\ UNCHANGED <<storeVars, kvCache, cacheStats, edgeCache, pendingKV, pendingEdge,
                   inflight, nextId, now, nOps, hist, last>>

(* The edge cache is ephemeral: an entry may go at any time *)
EdgeEvict(key) ==
    /\ Has(edgeCache, key)
    /\ edgeCache' = Del(edgeCache, key)
    /\ UNCHANGED <<storeVars, kvCache, kvCacheMeta, cacheStats, pendingKV, pendingEdge,
                   inflight, nextId, now, nOps, hist, last>>

Elapse ==
    /\ now < CacheHorizon
    /\ now' = NextInstant
    /\ UNCHANGED <<storeVars, cacheVars, inflight, nextId, nOps, hist, last>>

NextCache ==
    \/ Elapse
    \/ \E request \in WorkerRequests, upstream \in Upstreams :
          nOps < MaxCacheOps /\ WorkerProxyReq(request, upstream)
    \/ \E request \in ExternalRequests, upstream \in Upstreams :
          nOps < MaxCacheOps /\ ExternalFetchReq(request, upstream)
    \/ \E request \in AssetRequests, upstream \in Upstreams :
          nOps < MaxCacheOps /\ AssetReq(request, upstream)
    \/ \E task \in pendingKV, bodyStored, metaStored \in BOOLEAN :
          RunKVStore(task, bodyStored, metaStored)
    \/ \E task \in pendingEdge, stored \in BOOLEAN : RunCachePut(task, stored)
    \/ \E key \in DOMAIN kvCache : KVExpireBody(key)
    \/ \E key \in DOMAIN kvCacheMeta : KVExpireMeta(key)
    \/ \E key \in DOMAIN edgeCache : EdgeEvict(key)

SpecCache == Init /\ [][NextCache]_vars

----------------------------------------------------------------------------
(* Users close to their quota.  UploadedBy(batches) is the state the upload *)
(* handler itself produces when user u1 uploads, one after the other, the   *)
(* files of each batch: n files of one size through one endpoint (the      *)
(* first half of a batch, then the second).  Sizes are in MiB.              *)
SmallFile == <<[name |-> "note.txt", bytes |-> <<7>>]>>
BigFile == <<[name |-> "film.bin", bytes |-> SubSeq([i \in 1..MaxUploadSize |-> 7],
                                                    1, MaxUploadSize)]>>

RECURSIVE UploadMany(_, _, _, _, _)
UploadMany(S, n, endpoint, file, k) ==
    IF n = 0 THEN S
    ELSE IF n = 1
    THEN HandleUploadRequest(S, "u1", Role("u1"), endpoint, file, "a", k,
                             k - UserMaxFiles - 1, FALSE, FALSE).S
    ELSE CHOOSE after \in
            {UploadMany(half, n - (n \div 2), endpoint, file, k + (n \div 2)) :
                half \in {UploadMany(S, n \div 2, endpoint, file, k)}} : TRUE

RECURSIVE UploadedBy(_, _, _)
UploadedBy(S, batches, k) ==
    IF batches = <<>> THEN S
    ELSE LET batch == Head(batches)
         IN  CHOOSE after \in
                {UploadedBy(first, Tail(batches), k + batch.n) :
                    first \in {UploadMany(S, batch.n, batch.endpoint, batch.file, k)}} :
                TRUE

Batch(n, endpoint, file) == [n |-> n, endpoint |-> endpoint, file |-> file]

(* One file below the file limit, in one backend and in both; one big file  *)
(* below both limits at once; one big file below the storage limit alone    *)
QuotaScenarios ==
    {<<Batch(UserMaxFiles - 1, "direct", SmallFile)>>,
     <<Batch(50, "direct", SmallFile), Batch(UserMaxFiles - 51, "database", SmallFile)>>,
     <<Batch(38, "direct", BigFile), Batch(UserMaxFiles - 39, "database", SmallFile)>>,
     <<Batch(UserMaxStorage \div MaxUploadSize, "direct", BigFile)>>}

RECURSIVE Uploads(_)
Uploads(batches) == IF batches = <<>> THEN 0 ELSE Head(batches).n + Uploads(Tail(batches))

InitQuota ==
    /\ \E batches \in QuotaScenarios :
          /\ StoresAre(UploadedBy(EmptyStores, batches, 1))
          /\ nextId = Uploads(batches)
    /\ CachesAreEmpty
    /\ now = 0
    /\ nOps = 0
    /\ hist = Empty
    /\ last = NoRequest

MaxQuotaOps == 2

(* GET /api/user/quota *)
QuotaReq(u, dbFails) ==
    /\ LET r == GetUserQuota(St, u, Role(u), dbFails)
       IN  /\ Commit(r.S)
           /\ last' = [op |-> "quota", user |-> u, status |-> r.resp.status,
                       resp |-> r.resp, dbFails |-> dbFails]
    /\ nOps' = nOps + 1
    /\ UNCHANGED <<cacheVars, inflight, nextId, now, hist>>

NextQuota ==
    \/ Tick
    \/ \E u \in {"u1", "u3"}, e \in {"direct", "database"}, f \in {SmallFile, BigFile},
          quotaDbFails \in BOOLEAN :
          nOps < MaxQuotaOps /\ UploadReq(u, e, f, "a", quotaDbFails, FALSE)
    \/ \E u \in {"u1", "u3"}, dbFails \in BOOLEAN :
          nOps < MaxQuotaOps /\ QuotaReq(u, dbFails)

SpecQuota == InitQuota /\ [][NextQuota]_vars

----------------------------------------------------------------------------
(* Uploads, edits and retrievals of one user's files.  A retrieval is a GET *)
(* of a path that handleRequest routes to handleUploadedAssetRequest.       *)
MaxServeOps == 3
MaxServeUploads == 1

ServeUser == "u1"
ServeFiles ==
    {<<[name |-> "note.txt", bytes |-> <<7, 8>>]>>,
     <<[name |-> "clip.mp4", bytes |-> <<1, 2, 3>>]>>}
ServeContents == {<<5, 5, 5>>}

(* The paths asked for: every stored key, with and without the routing     *)
(* suffix, every path a row displays, and one that was never stored         *)
ServePaths ==
    LET keys == {key \in DOMAIN assetCache : key # <<>> /\ key[1] = "prod"}
    IN  keys \cup {key \o RoutingSuffix : key \in keys}
             \cup {db[id].file_path : id \in DOMAIN db}
             \cup {<<"prod", "missing">>}

(* The If-None-Match headers: none, or the tag of some content held *)
ServeTags ==
    {<<>>} \cup {<<GenerateETagFromBuffer(assetCache[key].value)>> : key \in DOMAIN assetCache}

(* The Range headers: none, or bytes=1-1 *)
ServeRanges == {<<>>, <<[start |-> <<1>>, end |-> <<1>>]>>}

(* What the request before a retrieval did, when it was a successful        *)
(* upload, content update or retrieval                                      *)
ServeNote ==
    IF ~("status" \in DOMAIN last /\ last.status = 200) THEN <<>>
    ELSE IF last.op = "upload"
    THEN <<[op |-> "upload", endpoint |-> last.endpoint, path |-> last.resp.file.path,
            bytes |-> last.file[1].bytes]>>
    ELSE IF last.op = "updateContent" /\ Has(db, last.id)
    THEN <<[op |-> "updateContent", path |-> db[last.id].file_path, bytes |-> last.arg]>>
    ELSE IF last.op = "serve"
    THEN <<[op |-> "serve", path |-> last.request.path, etag |-> last.resp.etag,
            bytes |-> last.resp.body]>>
    ELSE <<>>

(* GET of an uploaded asset *)
ServeReq(request) ==
    /\ IsUploadedAssetRoute(St, request.path)
    /\ LET resp == HandleUploadedAssetRequest(St, request)
       IN  last' = [op |-> "serve", request |-> request, status |-> resp.status,
                    resp |-> resp, prior |-> ServeNote]
    /\ nOps' = nOps + 1
    /\ UNCHANGED <<storeVars, cacheVars, inflight, nextId, now, hist>>

NextServe ==
    \/ \E e \in {"direct", "database"}, f \in ServeFiles :
          /\ nOps < MaxServeOps /\ nextId < MaxServeUploads
          /\ UploadReq(ServeUser, e, f, "a", FALSE, FALSE)
    \/ \E id \in DOMAIN db, c \in ServeContents :
          nOps < MaxServeOps /\ UpdateContentReq(ServeUser, id, c)
    \/ \E path \in ServePaths, tag \in ServeTags, range \in ServeRanges :
          /\ nOps < MaxServeOps
          /\ ServeReq([path |-> path, ifNoneMatch |-> tag, range |-> range])

SpecServe == Init /\ [][NextServe]_vars

----------------------------------------------------------------------------
(* Range requests on a media body.  The inputs are a body of 0..MaxBody     *)
(* bytes and the two sides of "bytes=start-end", each empty or a number up  *)
(* to one past the body.                                                    *)
MaxBody == 3

RangeBodies == {SubSeq([i \in 1..MaxBody |-> 10 + i], 1, n) : n \in 0..MaxBody}
RangeParts == {<<>>} \cup {<<n>> : n \in 0..(MaxBody + 1)}

InitRange ==
    /\ StoresAre(EmptyStores)
    /\ CachesAreEmpty
    /\ nextId = 0
    /\ now = 0
    /\ nOps = 0
    /\ hist = Empty
    /\ last \in {[op |-> "rangeHeader", body |-> body,
                  range |-> [start |-> start, end |-> end]] :
                     body \in RangeBodies, start \in RangeParts, end \in RangeParts}

(* handleUploadedAssetRequest hands a media body and the Range header over *)
RangeReq ==
    /\ last.op = "rangeHeader"
    /\ LET resp == HandleRangeRequest(last.body, last.range, "video/mp4")
       IN  last' = [op |-> "range", body |-> last.body, range |-> last.range,
                    status |-> resp.status, resp |-> resp]
    /\ nOps' = nOps + 1
    /\ UNCHANGED <<storeVars, cacheVars, inflight, nextId, now, hist>>

NextRange == RangeReq

SpecRange == InitRange /\ [][NextRange]_vars

----------------------------------------------------------------------------
(* The usage ledger under uploads, edits and quota queries *)
NextLedger ==
    \/ \E u \in Users, e \in {"direct", "database"}, f \in UploadFiles \ {<<>>} :
          nOps < MaxOps /\ nextId < MaxUploads /\ UploadReq(u, e, f, "a", FALSE, FALSE)
    \/ \E u \in Users, id \in KnownIds, p \in Patches :
          nOps < MaxOps /\ UpdateMetadataReq(u, id, p)
    \/ \E u \in Users, id \in KnownIds, c \in Contents :
          nOps < MaxOps /\ UpdateContentReq(u, id, c)
    \/ \E u \in Users, dbFails \in BOOLEAN :
          nOps < MaxOps /\ QuotaReq(u, dbFails)

SpecLedger == Init /\ [][NextLedger]_vars

----------------------------------------------------------------------------
(* Exceptions.  Each function that answers a request for handleRequest is  *)
(* listed with the function that calls it, whether that call is awaited     *)
(* (return await f(..)) or its promise returned as it is (return f(..)),    *)
(* whether the function is async, whether its statements that can throw     *)
(* stand in a try whose catch answers createErrorResponse(500, message),    *)
(* and that message.  Every call stands inside the caller's try when the    *)
(* caller has one.                                                          *)
Handlers ==
       ("handleRequest"              :> [caller |-> "", awaited |-> FALSE, async |-> TRUE,
          try |-> TRUE, message |-> "Internal Server Error"])
    @@ ("handleAPIRequest"           :> [caller |-> "handleRequest", awaited |-> FALSE, async |-> TRUE,
          try |-> FALSE, message |-> ""])
    @@ ("handleAuthRequest"          :> [caller |-> "handleAPIRequest", awaited |-> FALSE, async |-> TRUE,
          try |-> TRUE, message |-> "Authentication service unavailable"])
    @@ ("handleSearchRequest"        :> [caller |-> "handleAPIRequest", awaited |-> FALSE, async |-> TRUE,
          try |-> TRUE, message |-> "Search failed"])
    @@ ("handleAssetsListRequest"    :> [caller |-> "handleAPIRequest", awaited |-> FALSE, async |-> TRUE,
          try |-> TRUE, message |-> "Failed to fetch assets list"])
    @@ ("handleIndexRequest"         :> [caller |-> "handleAPIRequest", awaited |-> FALSE, async |-> TRUE,
          try |-> TRUE, message |-> "Index rebuild failed"])
    @@ ("handleUploadRequest"        :> [caller |-> "handleAPIRequest", awaited |-> FALSE, async |-> TRUE,
          try |-> TRUE, message |-> "Upload failed: <message>"])
    @@ ("handleDirectUpload"         :> [caller |-> "handleUploadRequest", awaited |-> TRUE, async |-> TRUE,
          try |-> TRUE, message |-> "Direct upload failed"])
    @@ ("handleDatabaseUpload"       :> [caller |-> "handleUploadRequest", awaited |-> TRUE, async |-> TRUE,
          try |-> TRUE, message |-> "Database upload failed"])
    @@ ("handleFileRequest"          :> [caller |-> "handleAPIRequest", awaited |-> FALSE, async |-> TRUE,
          try |-> TRUE, message |-> "File service error"])
    @@ ("getFileInfo"                :> [caller |-> "handleFileRequest", awaited |-> FALSE, async |-> TRUE,
          try |-> TRUE, message |-> "Failed to retrieve file information"])
    @@ ("deleteFile"                 :> [caller |-> "handleFileRequest", awaited |-> FALSE, async |-> TRUE,
          try |-> TRUE, message |-> "Failed to delete file"])
    @@ ("updateFileInfo"             :> [caller |-> "handleFileRequest", awaited |-> FALSE, async |-> TRUE,
          try |-> TRUE, message |-> "Failed to update file information"])
    @@ ("handleUserRequest"          :> [caller |-> "handleAPIRequest", awaited |-> FALSE, async |-> TRUE,
          try |-> TRUE, message |-> "User service error"])
    @@ ("getUserProfile"             :> [caller |-> "handleUserRequest", awaited |-> FALSE, async |-> TRUE,
          try |-> TRUE, message |-> "Failed to get user profile"])
    @@ ("getUserUploads"             :> [caller |-> "handleUserRequest", awaited |-> FALSE, async |-> TRUE,
          try |-> TRUE, message |-> "Failed to get user uploads"])
    @@ ("getUserQuota"               :> [caller |-> "handleUserRequest", awaited |-> FALSE, async |-> TRUE,
          try |-> TRUE, message |-> "Failed to get user quota"])
    @@ ("getUserStats"               :> [caller |-> "handleUserRequest", awaited |-> FALSE, async |-> TRUE,
          try |-> TRUE, message |-> "Failed to get user statistics"])
    @@ ("handleFileEditorRequest"    :> [caller |-> "handleAPIRequest", awaited |-> FALSE, async |-> TRUE,
          try |-> TRUE, message |-> "File editor service error"])
    @@ ("updateFileMetadata"         :> [caller |-> "handleFileEditorRequest", awaited |-> FALSE, async |-> TRUE,
          try |-> TRUE, message |-> "Failed to update file metadata"])
    @@ ("updateFileContent"          :> [caller |-> "handleFileEditorRequest", awaited |-> FALSE, async |-> TRUE,
          try |-> TRUE, message |-> "Failed to update file content"])
    @@ ("getFileWithVersions"        :> [caller |-> "handleFileEditorRequest", awaited |-> FALSE, async |-> TRUE,
          try |-> TRUE, message |-> "Failed to get file information"])
    @@ ("handleVersionsRequest"      :> [caller |-> "handleAPIRequest", awaited |-> FALSE, async |-> TRUE,
          try |-> TRUE, message |-> "Version control service error"])
    @@ ("getFileVersion"             :> [caller |-> "handleVersionsRequest", awaited |-> FALSE, async |-> TRUE,
          try |-> TRUE, message |-> "Failed to get version information"])
    @@ ("getFileVersionHistory"      :> [caller |-> "handleVersionsRequest", awaited |-> FALSE, async |-> TRUE,
          try |-> TRUE, message |-> "Failed to get version history"])
    @@ ("restoreFileVersion"         :> [caller |-> "handleVersionsRequest", awaited |-> FALSE, async |-> TRUE,
          try |-> TRUE, message |-> "Failed to restore file version"])
    @@ ("handleWorkerProxyRequest"   :> [caller |-> "handleRequest", awaited |-> TRUE, async |-> TRUE,
          try |-> TRUE, message |-> "Failed to proxy request to worker '<workerName>"])
    @@ ("handleRPCRequest"           :> [caller |-> "handleRequest", awaited |-> TRUE, async |-> TRUE,
          try |-> TRUE, message |-> "RPC call failed: <workerName>.<method>"])
    @@ ("handleExternalFetch"        :> [caller |-> "handleRequest", awaited |-> TRUE, async |-> TRUE,
          try |-> TRUE, message |-> "Failed to fetch external resource"])
    @@ ("handleChromeDevTools"       :> [caller |-> "handleRequest", awaited |-> FALSE, async |-> FALSE,
          try |-> FALSE, message |-> ""])
    @@ ("handleIconRedirect"         :> [caller |-> "handleRequest", awaited |-> FALSE, async |-> FALSE,
          try |-> FALSE, message |-> ""])
    @@ ("handleUploadedAssetRequest" :> [caller |-> "handleRequest", awaited |-> TRUE, async |-> TRUE,
          try |-> TRUE, message |-> "Failed to fetch uploaded asset"])
    @@ ("handleAssetRequest"         :> [caller |-> "handleRequest", awaited |-> TRUE, async |-> TRUE,
          try |-> TRUE, message |-> "Failed to fetch asset"])

(* The functions with a statement that can throw before their try:          *)
(* handleAssetRequest asks the edge cache first                             *)
ThrowsBeforeTry == {"handleAssetRequest"}

(* handleAPIRequest only compares the path and returns the promise of the   *)
(* handler it picks: no statement of its own can throw                      *)
Throwing == (DOMAIN Handlers) \ {"handleAPIRequest"}

(* A table in which handleRequest alone has a try *)
OnlyTopLevelTry(fn) == fn = "handleRequest"

HasTry(fn) == Handlers[fn].try

(* What the caller of handleRequest gets *)
Responded(resp) == [kind |-> "response", resp |-> resp]
Rejected == [kind |-> "rejected"]

(* An exception leaves fn: a rejected promise when fn is async, a throw     *)
(* otherwise.  The caller's catch sees a throw, and sees a rejection only   *)
(* of a promise it awaits.                                                  *)
RECURSIVE Raise(_)
Raise(fn) ==
    IF Handlers[fn].caller = "" THEN Rejected
    ELSE LET caller == Handlers[fn].caller IN
         IF HasTry(caller) /\ (Handlers[fn].awaited \/ ~Handlers[fn].async)
         THEN Responded(CreateErrorResponse(500, Handlers[caller].message))
         ELSE Raise(caller)

(* A statement of fn throws, inside its try ("try") or outside ("open") *)
Throw(fn, place) ==
    IF place = "try" /\ HasTry(fn)
    THEN Responded(CreateErrorResponse(500, Handlers[fn].message))
    ELSE Raise(fn)

(* Where a statement of fn can throw *)
Places(fn) ==
    IF ~Handlers[fn].try THEN {"open"}
    ELSE IF fn \in ThrowsBeforeTry THEN {"try", "open"}
    ELSE {"try"}

MaxFaultOps == 3

(* A request during which a statement of fn throws *)
FaultReq(fn, place) ==
    /\ last' = [op |-> "fault", fn |-> fn, place |-> place, outcome |-> Throw(fn, place)]
    /\ nOps' = nOps + 1
    /\ UNCHANGED <<storeVars, cacheVars, inflight, nextId, now, hist>>

(* POST /api/upload/database during which a write of the handler throws *)
FailingUploadReq(u, file, name, throws) ==
    /\ LET quotaCheck == CheckUserQuota(St, u, Role(u), FALSE)
           r == IF ~quotaCheck.canUpload
                THEN [S |-> St, resp |-> CreateErrorResponse(403, quotaCheck.reason)]
                ELSE HandleDatabaseUploadThrowing(St, u, Role(u), file, name,
                                                  nextId + 1, now, FALSE, throws)
       IN  /\ Commit(r.S)
           /\ nextId' = IF r.S # St THEN nextId + 1 ELSE nextId
           /\ last' = [op |-> "databaseUpload", user |-> u, file |-> file,
                       name |-> name, throws |-> throws, k |-> nextId + 1,
                       status |-> r.resp.status, resp |-> r.resp,
                       usedBefore |-> CalculateUserUsage(St, u, FALSE)]
    /\ nOps' = nOps + 1
    /\ UNCHANGED <<cacheVars, inflight, now, hist>>

(* Requests with a failure inside: a statement of a handler throws, the     *)
(* relational query of an upload's usage count throws and is caught where   *)
(* it is made, or a write of a database-backed upload throws                *)
NextFault ==
    \/ \E u \in Users, throws \in {"insert", "put"} :
          /\ nOps < MaxFaultOps /\ nextId < MaxUploads
          /\ FailingUploadReq(u, <<[name |-> "note.txt", bytes |-> <<7>>]>>, "a", throws)
    \/ \E fn \in Throwing : \E place \in Places(fn) :
          nOps < MaxFaultOps /\ FaultReq(fn, place)
    \/ \E u \in Users, e \in {"direct", "database"}, quotaDbFails \in BOOLEAN,
          dbFails \in BOOLEAN :
          /\ nOps < MaxFaultOps /\ nextId < MaxUploads
          /\ quotaDbFails \/ dbFails
          /\ UploadReq(u, e, <<[name |-> "note.txt", bytes |-> <<7>>]>>, "a",
                       quotaDbFails, dbFails)

SpecFault == Init /\ [][NextFault]_vars

----------------------------------------------------------------------------
(* Uploads that fail a check, by a user with nothing stored and by a user   *)
(* at the file limit                                                        *)
HugeFile == <<[name |-> "film.bin", bytes |-> SubSeq([i \in 1..(MaxUploadSize + 1) |-> 7],
                                                     1, MaxUploadSize + 1)]>>

RejectScenarios == {<<>>, <<Batch(UserMaxFiles, "direct", SmallFile)>>}

InitReject ==
    /\ \E batches \in RejectScenarios :
          /\ StoresAre(UploadedBy(EmptyStores, batches, 1))
          /\ nextId = Uploads(batches)
    /\ CachesAreEmpty
    /\ now = 0
    /\ nOps = 0
    /\ hist = Empty
    /\ last = NoRequest

MaxRejectOps == 2

NextReject ==
    \E u \in {"u1", "u2"}, e \in {"direct", "database"},
       f \in {<<>>, SmallFile, HugeFile}, n \in UploadNames :
          nOps < MaxRejectOps /\ UploadReq(u, e, f, n, FALSE, FALSE)

SpecReject == InitReject /\ [][NextReject]_vars

----------------------------------------------------------------------------
(* Requests to the endpoints behind authentication, with and without a     *)
(* token                                                                    *)
Authorizations ==
    {<<>>, <<"Basic", "t1">>, <<"Bearer", "t1">>, <<"Bearer", "t2">>, <<"Bearer", "expired">>}

ApiRequests ==
    LET To(endpoint, methods, rest) ==
            {Spread(rest, [endpoint |-> endpoint, method |-> m, authorization |-> a]) :
                m \in methods, a \in Authorizations}
    IN  To("index", {"POST", "GET", "OPTIONS"}, Empty)
        \cup To("upload", {"POST", "GET", "OPTIONS"}, [file |-> SmallFile])
        \cup To("user", {"GET", "POST"}, Empty)
        \cup To("health", {"GET"}, Empty)
        \cup To("stats", {"GET"}, Empty)
        \cup To("unknown", {"GET"}, Empty)
        \cup UNION {To("files", {"DELETE", "POST"}, [id |-> id])
                    \cup To("file-editor", {"PUT", "POST"}, [id |-> id, content |-> <<5>>])
                    \cup To("versions", {"GET", "DELETE"}, [id |-> id]) : id \in KnownIds}

MaxAuthOps == 2

ApiReq(request, serviceFails) ==
    /\ LET r == HandleAPIRequest(St, request, serviceFails, nextId + 1, now)
       IN  /\ Commit(r.S)
           /\ nextId' = IF request.endpoint = "upload" /\ r.resp.status = 200 /\ r.S # St
                        THEN nextId + 1 ELSE nextId
           /\ last' = [op |-> "api", request |-> request, serviceFails |-> serviceFails,
                       status |-> r.resp.status, resp |-> r.resp, wrote |-> (r.S # St)]
    /\ nOps' = nOps + 1
    /\ UNCHANGED <<cacheVars, inflight, now, hist>>

NextAuth ==
    \E request \in ApiRequests, serviceFails \in BOOLEAN :
        /\ nOps < MaxAuthOps
        /\ request.endpoint = "upload" => nextId < MaxUploads
        /\ ApiReq(request, serviceFails)

SpecAuth == Init /\ [][NextAuth]_vars

----------------------------------------------------------------------------
(* Edits of one file while writes to FILE_VERSIONS fail.  The file is a     *)
(* database upload whose content has been updated once; it starts with its  *)
(* row still there (the row is what getFileMetadata reads) or with the row  *)
(* deleted and 0 or 2 further updates made (the key-value copy is read).    *)
RowBacked(t) ==
    LET uploaded == HandleUploadRequest(EmptyStores, "u1", Role("u1"), "database",
                                        HistFile, "a", 1, t, FALSE, FALSE).S
    IN  HandleFileEditorRequest(uploaded, HistId, "u1", "content", <<2, 2>>, t).S

SnapHistLens == {0, 2}

(* The puts of createFileVersion that throw during a request: none, the     *)
(* content blob, the version record, or the index                           *)
SnapFaults == {{}, {"putContent"}, {"putRecord"}, {"putIndex"}}

MaxSnapOps == 2

InitSnap ==
    /\ \/ StoresAre(RowBacked(0 - 1))
       \/ \E h \in SnapHistLens : StoresAre(HistoryOf(h))
    /\ CachesAreEmpty
    /\ nextId = 1
    /\ now = 0
    /\ nOps = 0
    /\ hist = Empty
    /\ last = NoRequest

(* PUT /api/file-editor/{id}/metadata, PUT /api/file-editor/{id}/content    *)
(* and POST /api/versions/{id}/restore/{version} by the owner               *)
SnapEditReq(op, arg, faults) ==
    /\ \E S \in {[St EXCEPT !.faults = faults]} :
       \E r \in {CASE op = "updateMetadata" ->
                        HandleFileEditorRequest(S, HistId, "u1", "metadata", arg, now)
                   [] op = "updateContent" ->
                        HandleFileEditorRequest(S, HistId, "u1", "content", arg, now)
                   [] op = "restore" ->
                        HandleVersionsRestore(S, HistId, "u1", arg, now)} :
           /\ Commit(r.S)
           /\ last' = [op |-> op, user |-> "u1", id |-> HistId,
                       status |-> r.resp.status, resp |-> r.resp,
                       pre |-> GetFileMetadata(St, HistId), arg |-> arg,
                       faults |-> faults,
                       hadContent |-> Has(fileContent, HistId),
                       wrote |-> (r.S # S)]
    /\ nOps' = nOps + 1
    /\ UNCHANGED <<cacheVars, inflight, nextId, now, hist>>

NextSnap ==
    \/ Tick
    \/ \E p \in Patches, f \in SnapFaults :
          nOps < MaxSnapOps /\ SnapEditReq("updateMetadata", p, f)
    \/ \E c \in Contents, f \in SnapFaults :
          nOps < MaxSnapOps /\ SnapEditReq("updateContent", c, f)
    \/ \E v \in HistRestoreTargets, f \in SnapFaults :
          nOps < MaxSnapOps /\ SnapEditReq("restore", v, f)

SpecSnap == InitSnap /\ [][NextSnap]_vars

----------------------------------------------------------------------------
(* Direct uploads of one user handled at the same time.  A request runs     *)
(* from one await to the next in one step; between two steps of a request   *)
(* any other request may take steps.  The requests are numbered; request p  *)
(* is at inflight[p].pc and has read what inflight[p] holds.                *)
MaxRaceReqs == 2
RaceUser == "u1"
RaceStarts == {0, UserMaxFiles - 1}

InitRace ==
    /\ \E n \in RaceStarts :
          /\ StoresAre(UploadedBy(EmptyStores, <<Batch(n, "direct", SmallFile)>>, 1))
          /\ nextId = n
    /\ CachesAreEmpty
    /\ now = 0
    /\ nOps = 0
    /\ hist = Empty
    /\ last = NoRequest

At(p, pc) == Has(inflight, p) /\ inflight[p].pc = pc

Step(p, locals) == inflight' = Put(inflight, p, Spread(inflight[p], locals))

(* handleUploadRequest up to the end of `await checkUserQuota` *)
UploadCheckQuota(p, file) ==
    /\ ~Has(inflight, p)
    /\ LET quotaCheck == CheckUserQuota(St, RaceUser, Role(RaceUser), FALSE)
       IN  inflight' = Put(inflight, p,
              IF quotaCheck.canUpload
              THEN [pc |-> "putAsset", file |-> file, status |-> 0]
              ELSE [pc |-> "done", file |-> file, status |-> 403,
                    resp |-> CreateErrorResponse(403, quotaCheck.reason)])
    /\ nOps' = nOps + 1
    /\ UNCHANGED <<storeVars, cacheVars, nextId, now, hist, last>>

(* handleDirectUpload up to the end of `await CDN_CACHE.put` *)
UploadPutAsset(p) ==
    /\ At(p, "putAsset")
    /\ Commit(PutDirectAsset(St, inflight[p].file, nextId + 1))
    /\ nextId' = nextId + 1
    /\ Step(p, [pc |-> "putMetadata", k |-> nextId + 1])
    /\ UNCHANGED <<cacheVars, now, nOps, hist, last>>

(* ... up to the end of `await CDN_METADATA.put` of file:<path> *)
UploadPutMetadata(p) ==
    /\ At(p, "putMetadata")
    /\ LET fileMetadata == DirectFileMetadata(RaceUser, inflight[p].file, inflight[p].k, now)
       IN  /\ Commit([St EXCEPT !.fileMeta = Put(@, fileMetadata.storagePath, fileMetadata)])
           /\ Step(p, [pc |-> "trackRead", fileMetadata |-> fileMetadata])
    /\ UNCHANGED <<cacheVars, nextId, now, nOps, hist, last>>

(* trackUserUpload up to the end of its `await CDN_METADATA.get` *)
UploadTrackRead(p) ==
    /\ At(p, "trackRead")
    /\ Step(p, [pc |-> "trackWrite", existingUploads |-> TrackedUploads(St, RaceUser)])
    /\ UNCHANGED <<storeVars, cacheVars, nextId, now, nOps, hist, last>>

(* trackUserUpload up to the end of its `await CDN_METADATA.put` *)
UploadTrackWrite(p) ==
    /\ At(p, "trackWrite")
    /\ Commit(TrackUserUploadPut(St, RaceUser, inflight[p].existingUploads,
                                 inflight[p].fileMetadata))
    /\ Step(p, [pc |-> "respond"])
    /\ UNCHANGED <<cacheVars, nextId, now, nOps, hist, last>>

(* handleDirectUpload from `await calculateUserUsage` to its response *)
UploadRespond(p) ==
    /\ At(p, "respond")
    /\ LET resp == [status |-> 200, json |-> TRUE, success |-> TRUE,
                    file |-> [id |-> inflight[p].fileMetadata.storagePath,
                              path |-> inflight[p].fileMetadata.path,
                              size |-> inflight[p].fileMetadata.size],
                    used |-> CalculateUserUsage(St, RaceUser, FALSE)]
       IN  /\ Step(p, [pc |-> "done", status |-> 200, resp |-> resp])
           /\ last' = [op |-> "concurrentUpload", user |-> RaceUser, request |-> p,
                       status |-> 200, resp |-> resp]
    /\ UNCHANGED <<storeVars, cacheVars, nextId, now, nOps, hist>>

NextRace ==
    \/ \E p \in 1..MaxRaceReqs : UploadCheckQuota(p, SmallFile)
    \/ \E p \in 1..MaxRaceReqs : UploadPutAsset(p)
    \/ \E p \in 1..MaxRaceReqs : UploadPutMetadata(p)
    \/ \E p \in 1..MaxRaceReqs : UploadTrackRead(p)
    \/ \E p \in 1..MaxRaceReqs : UploadTrackWrite(p)
    \/ \E p \in 1..MaxRaceReqs : UploadRespond(p)

SpecRace == InitRace /\ [][NextRace]_vars

----------------------------------------------------------------------------
(* The version of a file as read back from storage (getFileMetadata) *)
StoredVersion(id) == GetFileMetadata(St, id)[1].version
Stored(id) == GetFileMetadata(St, id) # <<>>

(* C1: on a file created at version 1 and changed since only by N accepted  *)
(* updateMetadata / updateContent requests, the version read back from      *)
(* storage is 1 + N.                                                        *)
C1_VersionCountsUpdates ==
    \A id \in DOMAIN hist :
        (hist[id].onlyUpdates /\ Stored(id)) => StoredVersion(id) = 1 + hist[id].updates

(* C2: an accepted updateMetadata on a file at version v leaves a version   *)
(* record numbered v, of changeType "metadata", whose stored metadata is    *)
(* the metadata of the file before the patch, and the live version is v + 1 *)
C2_MetadataUpdateSnapshotsPriorState ==
    (last.op = "updateMetadata" /\ last.status = 200) =>
        LET before == last.pre[1]
            key == <<last.id, before.version>>
        IN  /\ Has(versionRec, key)
            /\ versionRec[key].version = before.version
            /\ versionRec[key].changeType = "metadata"
            /\ versionRec[key].changes.metadata = before
            /\ Stored(last.id)
            /\ StoredVersion(last.id) = before.version + 1

(* C3: after a successful restore the version read back from storage is     *)
(* strictly greater than the version stored before the call                 *)
C3_RestoreRaisesVersion ==
    (last.op = "restore" /\ last.status = 200) =>
        /\ Stored(last.id)
        /\ StoredVersion(last.id) > last.pre[1].version

(* C4: listVersions returns at most 50 entries, in strictly descending      *)
(* order of version number                                                  *)
C4_ListBoundedAndDescending ==
    \A id \in DOMAIN versionIndex :
        \A versions \in {GetFileVersions(St, id)} :
            /\ Len(versions) <= MaxVersions
            /\ \A i, j \in DOMAIN versions :
                   i < j => versions[i].version > versions[j].version

(* A full list out of which older versions have been evicted, taken after   *)
(* updates and a restore                                                    *)
C4_Witness ==
    /\ Has(versionIndex, HistId)
    /\ Len(GetFileVersions(St, HistId)) = MaxVersions
    /\ ~(2 \in Range(versionIndex[HistId]))
    /\ last.op = "restore" /\ last.status = 200

(* KV holds a usable entry for the last request: metadata whose expiry has  *)
(* not passed, and a body                                                   *)
KVUsable ==
    /\ last.held.meta # <<>>
    /\ last.at <= last.held.meta[1].expires
    /\ last.held.body

WorkerGet ==
    /\ last.op = "workerProxy"
    /\ last.request.method = "GET"
    /\ last.request.pathParts[2] \in WorkerBindings

(* C5: a GET on the worker-proxy path consults KV first, the edge cache     *)
(* only when KV misses, the bound worker only when both miss; a KV hit is   *)
(* final and no other layer is consulted                                    *)
C5_LayersInOrder ==
    WorkerGet =>
        /\ last.consulted # <<>> /\ last.consulted[1] = "KV"
        /\ "EdgeCache" \in Range(last.consulted) => ~KVUsable
        /\ "Origin" \in Range(last.consulted) => (~KVUsable /\ ~last.held.edge)
        /\ KVUsable => last.consulted = <<"KV">>
        /\ (~KVUsable /\ last.held.edge) => last.consulted = <<"KV", "EdgeCache">>
        /\ (~KVUsable /\ ~last.held.edge) => last.consulted = <<"KV", "EdgeCache", "Origin">>

(* A KV hit served while the edge cache holds the response too *)
C5_Witness ==
    /\ WorkerGet
    /\ KVUsable /\ last.held.edge
    /\ last.resp.headers.xCacheStatus = "KV-HIT"

KVLookedUp ==
    /\ last.op \in {"workerProxy", "externalFetch"}
    /\ "KV" \in Range(last.consulted)

(* C6: the KV lookup returns a cached body only if the key's metadata       *)
(* record exists and its expiry has not passed; otherwise it misses, even   *)
(* when a body is stored                                                    *)
C6_KVHitNeedsLiveMetadata ==
    KVLookedUp =>
        (last.consulted = <<"KV">> =>
            /\ last.held.meta # <<>>
            /\ ~(last.at > last.held.meta[1].expires)
            /\ last.held.body)

(* A miss on a key whose body is stored and whose metadata has expired *)
C6_Witness ==
    /\ KVLookedUp
    /\ last.held.body
    /\ last.held.meta # <<>> /\ last.at > last.held.meta[1].expires
    /\ last.consulted # <<"KV">>

UpstreamFailed ==
    /\ last.op \in {"workerProxy", "externalFetch", "asset"}
    /\ last.upstream # <<>>
    /\ last.upstream[1].status \notin 200..299

NothingCached == last.kvStores = {} /\ last.edgePuts = {}

(* C7 as stated: on a non-2xx upstream answer the proxy returns the same    *)
(* status and the unmodified body, and starts no cache write                *)
C7_UpstreamErrorPassedThrough ==
    UpstreamFailed =>
        /\ last.resp.status = last.upstream[1].status
        /\ "body" \in DOMAIN last.resp /\ last.resp.body = last.upstream[1].body
        /\ NothingCached

(* C7, amended: on a 4xx or 5xx upstream answer no cache write is started;  *)
(* the worker proxy returns the upstream status and body unmodified, the    *)
(* external fetch returns the upstream status with a JSON error body, the   *)
(* static handler returns 404 with a JSON error body                        *)
C7_UpstreamErrorNotCached ==
    UpstreamFailed =>
        /\ NothingCached
        /\ last.op = "workerProxy" =>
               /\ last.resp.status = last.upstream[1].status
               /\ "body" \in DOMAIN last.resp /\ last.resp.body = last.upstream[1].body
        /\ last.op = "externalFetch" =>
               /\ last.resp.status = last.upstream[1].status
               /\ "body" \notin DOMAIN last.resp /\ last.resp.json
        /\ last.op = "asset" =>
               /\ last.resp.status = 404
               /\ "body" \notin DOMAIN last.resp /\ last.resp.json

(* The static handler answering 404 to an upstream 500 *)
C7_Witness ==
    /\ UpstreamFailed
    /\ last.op = "asset"
    /\ last.upstream[1].status = 500
    /\ last.resp.status = 404

----------------------------------------------------------------------------
(* An upload request of a user of role 'user', and what the two backends    *)
(* held for that user when it arrived: the files and bytes the quota check  *)
(* counts (a relational query that throws counts for nothing)               *)
UserUpload == last.op = "upload" /\ Role(last.user) = "user"
CountedFiles ==
    last.before.kvFiles + (IF last.quotaDbFails THEN 0 ELSE last.before.dbFiles)
CountedBytes ==
    last.before.kvBytes + (IF last.quotaDbFails THEN 0 ELSE last.before.dbBytes)
Refused(reason) ==
    /\ last.status = 403
    /\ last.resp.error[1] = reason

(* C8: an upload by a user of role 'user' whose counted files are 100 of    *)
(* 100 is answered 403 with the reason 'File limit exceeded (100/100)',     *)
(* and no content, metadata or upload-tracking record is written.           *)
C8_UploadAtFileLimitRefused ==
    (UserUpload /\ CountedFiles = UserMaxFiles) =>
        /\ last.status = 403
        /\ last.resp.error = <<"File limit exceeded", UserMaxFiles, UserMaxFiles>>
        /\ ~last.wrote
        /\ last.after = last.before

(* The 101st upload of a user whose 100 files are spread over both backends *)
C8_Witness ==
    /\ UserUpload
    /\ ~last.quotaDbFails
    /\ last.before.kvFiles > 0 /\ last.before.dbFiles > 0
    /\ last.before.kvFiles + last.before.dbFiles = UserMaxFiles
    /\ last.status = 403
    /\ ~last.wrote

(* C9: the file-count limit is tested before the storage limit: when both   *)
(* are violated the reason is the file-limit reason, and the storage-limit  *)
(* reason is returned only when the file-count limit is not violated.       *)
C9_FileLimitTestedFirst ==
    UserUpload =>
        /\ (CountedFiles >= UserMaxFiles /\ CountedBytes >= UserMaxStorage)
               => Refused("File limit exceeded")
        /\ Refused("Storage limit exceeded")
               => (CountedFiles < UserMaxFiles /\ CountedBytes >= UserMaxStorage)

(* An upload refused for the file limit while the storage limit is violated *)
(* too                                                                      *)
C9_Witness ==
    /\ UserUpload
    /\ CountedFiles >= UserMaxFiles
    /\ CountedBytes >= UserMaxStorage
    /\ Refused("File limit exceeded")

(* C10: the usage of a user is the sum, over the key-value upload list and  *)
(* the relational rows of that user, of the numbers of files and of their   *)
(* bytes, with no deduplication: the usage an accepted upload reports is    *)
(* that sum after the upload, and the count in a file-limit refusal is that *)
(* sum before it (both when the relational query answers).                  *)
C10_UsageSumsBothBackends ==
    last.op = "upload" =>
        /\ (last.status = 200 /\ ~last.dbFails) =>
               /\ last.resp.used.files = last.after.kvFiles + last.after.dbFiles
               /\ last.resp.used.storage = last.after.kvBytes + last.after.dbBytes
        /\ (Refused("File limit exceeded") /\ ~last.quotaDbFails) =>
               last.resp.error[2] = last.before.kvFiles + last.before.dbFiles
        /\ (Refused("Storage limit exceeded") /\ ~last.quotaDbFails) =>
               last.resp.error[2] = last.before.kvBytes + last.before.dbBytes

(* An accepted upload of a file that the user already holds, under the same *)
(* name and with the same bytes, in both backends: each copy is counted     *)
C10_Witness ==
    /\ last.op = "upload"
    /\ last.status = 200
    /\ ~last.dbFails
    /\ last.before.kvFiles > 1 /\ last.before.dbFiles > 1
    /\ last.before.kvBytes = last.before.kvFiles
    /\ last.before.dbBytes = last.before.dbFiles
    /\ last.resp.used.files = last.before.kvFiles + last.before.dbFiles + 1

----------------------------------------------------------------------------
(* A path that ends with the two segments of the routing suffix, and the    *)
(* path without them                                                        *)
HasRoutingSuffix(path) ==
    /\ Len(path) >= 2
    /\ path[Len(path) - 1] = "object"
    /\ path[Len(path)] = "live.m3u8"
WithoutRoutingSuffix(path) == SubSeq(path, 1, Len(path) - 2)
CleanKeyOf(path) == IF HasRoutingSuffix(path) THEN WithoutRoutingSuffix(path) ELSE path

(* A GET without If-None-Match and without Range *)
PlainGet ==
    /\ last.op = "serve"
    /\ last.request.ifNoneMatch = <<>>
    /\ last.request.range = <<>>

DirectUploadDone ==
    /\ last.op = "upload"
    /\ last.endpoint = "direct"
    /\ last.status = 200

ServedAfterDirectUpload ==
    /\ PlainGet
    /\ last.prior # <<>>
    /\ last.prior[1].op = "upload"
    /\ last.prior[1].endpoint = "direct"
    /\ last.request.path \in {last.prior[1].path, WithoutRoutingSuffix(last.prior[1].path)}

(* C11: a successful direct upload of bytes B returns a path that ends with *)
(* the routing suffix, the cache-store entry keyed by that path without the *)
(* suffix holds exactly B, and a GET of the display path or of the clean    *)
(* path serves B.                                                           *)
C11_DirectUploadServedUnderBothPaths ==
    /\ DirectUploadDone =>
          LET path == last.resp.file.path IN
          /\ HasRoutingSuffix(path)
          /\ Has(assetCache, WithoutRoutingSuffix(path))
          /\ assetCache[WithoutRoutingSuffix(path)].value = last.file[1].bytes
    /\ ServedAfterDirectUpload =>
          /\ last.status = 200
          /\ last.resp.body = last.prior[1].bytes

C11_Witness ==
    /\ ServedAfterDirectUpload
    /\ last.request.path = WithoutRoutingSuffix(last.prior[1].path)
    /\ last.status = 200
    /\ last.resp.body = <<7, 8>>

(* C12: retrieving a file right after its upload returns the uploaded bytes *)
(* with an ETag; a further retrieval of the unchanged file carries the same *)
(* ETag, and when its If-None-Match equals that ETag it is answered 304     *)
(* without a body.                                                          *)
C12_RoundTripWithStableETag ==
    (last.op = "serve" /\ last.prior # <<>>) =>
        LET prior == last.prior[1]
            same == CleanKeyOf(last.request.path) = CleanKeyOf(prior.path)
        IN  /\ (prior.op = "upload" /\ same /\ PlainGet) =>
                  /\ last.status = 200
                  /\ last.resp.body = prior.bytes
                  /\ "etag" \in DOMAIN last.resp
            /\ (prior.op = "serve" /\ same) =>
                  /\ "etag" \in DOMAIN last.resp
                  /\ last.resp.etag = prior.etag
            /\ (prior.op = "serve" /\ same /\ last.request.ifNoneMatch = <<prior.etag>>) =>
                  /\ last.status = 304
                  /\ "body" \notin DOMAIN last.resp

C12_Witness ==
    /\ last.op = "serve"
    /\ last.prior # <<>>
    /\ last.prior[1].op = "serve"
    /\ last.request.ifNoneMatch = <<last.prior[1].etag>>
    /\ last.status = 304
    /\ "body" \notin DOMAIN last.resp

----------------------------------------------------------------------------
(* C13: for a media body of fileSize bytes and a request bytes=start-end,   *)
(* when start >= fileSize or end >= fileSize the answer is 416 with         *)
(* Content-Range "bytes */fileSize"; when 0 <= start <= end < fileSize      *)
(* (end = 0 included) the answer is 206 with exactly the bytes start..end   *)
(* and Content-Length end - start + 1.                                      *)
C13_RangeAnswers ==
    (/\ last.op = "range"
     /\ last.range.start # <<>>
     /\ last.range.end # <<>>) =>
        LET fileSize == Len(last.body)
            start == last.range.start[1]
            end == last.range.end[1]
        IN  /\ (start >= fileSize \/ end >= fileSize) =>
                  /\ last.status = 416
                  /\ last.resp.contentRange = [size |-> fileSize]
            /\ (start <= end /\ end < fileSize) =>
                  /\ last.status = 206
                  /\ last.resp.body = SubSeq(last.body, start + 1, end + 1)
                  /\ last.resp.contentLength = (end - start) + 1

----------------------------------------------------------------------------
(* C14: in every stored usage ledger the total is the sum of the files part *)
(* and the versions part, whatever quota queries, metadata updates and      *)
(* content updates came before.                                             *)
C14_LedgerTotalIsSum ==
    \A u \in DOMAIN storageUsage :
        storageUsage[u].total = storageUsage[u].files + storageUsage[u].versions

(* A ledger whose two parts are both positive: a quota query counted the    *)
(* files and an update then added to the versions                           *)
C14_Witness ==
    /\ last.op \in {"updateMetadata", "updateContent"}
    /\ last.status = 200
    /\ Has(storageUsage, last.user)
    /\ storageUsage[last.user].files > 0
    /\ storageUsage[last.user].versions > 0

----------------------------------------------------------------------------
(* C15: after a successful delete of a file nothing of it remains: its      *)
(* metadata (relational row and key-value copy), its content blob, its      *)
(* version index, its version records and its version content blobs are     *)
(* gone from every store.                                                   *)
C15_DeleteRemovesEverything ==
    (last.op = "delete" /\ last.status = 200) =>
        /\ ~Has(db, last.id)
        /\ ~Has(fileMeta, last.id)
        /\ ~Has(fileContent, last.id)
        /\ ~Has(versionIndex, last.id)
        /\ \A key \in DOMAIN versionRec : key[1] # last.id
        /\ \A key \in DOMAIN versionContent : key[1] # last.id

----------------------------------------------------------------------------
(* C16: after an accepted content update with new bytes, the versioned      *)
(* content store holds the new bytes, the serving cache holds them under    *)
(* the file's clean storage key, and a GET of the file's obfuscated path    *)
(* serves the new bytes.                                                    *)
C16_UpdatedContentServed ==
    /\ (last.op = "updateContent" /\ last.status = 200 /\ Has(db, last.id)) =>
          LET key == CleanKeyOf(db[last.id].file_path) IN
          /\ Has(fileContent, last.id)
          /\ fileContent[last.id] = last.arg
          /\ Has(assetCache, key)
          /\ assetCache[key].value = last.arg
    /\ (/\ PlainGet
        /\ last.prior # <<>>
        /\ last.prior[1].op = "updateContent"
        /\ last.request.path = last.prior[1].path) =>
          /\ last.status = 200
          /\ last.resp.body = last.prior[1].bytes

----------------------------------------------------------------------------
(* A JSON error body whose status field is the status of the response *)
IsJsonError(resp) ==
    /\ "error" \in DOMAIN resp
    /\ resp.json
    /\ resp.bodyStatus = resp.status

FaultAnswered ==
    last.op = "fault" =>
        /\ last.outcome.kind = "response"
        /\ IsJsonError(last.outcome.resp)

UsageQueryFailed ==
    /\ last.op = "upload"
    /\ (last.quotaDbFails \/ last.dbFails)

----------------------------------------------------------------------------
(* The checks of an upload, told from the request and from what the user    *)
(* held before it                                                           *)
OverFileLimit ==
    /\ Role(last.user) = "user"
    /\ last.before.kvFiles + last.before.dbFiles >= UserMaxFiles
NoFilePart == last.file = <<>>
NameMissing == last.endpoint = "database" /\ last.name = ""
TooLarge == last.file # <<>> /\ Len(last.file[1].bytes) > MaxUploadSize

(* C18: an upload that fails a critical-path check (quota refused, no file  *)
(* provided, asset name missing, file larger than 25 MB) is answered with   *)
(* the matching error status, 403 for the quota and 400 for the others, and *)
(* leaves every store unchanged.                                            *)
C18_RefusedUploadWritesNothing ==
    last.op = "upload" =>
        /\ OverFileLimit => (last.status = 403 /\ ~last.wrote)
        /\ (~OverFileLimit /\ (NoFilePart \/ NameMissing \/ TooLarge)) =>
               (last.status = 400 /\ ~last.wrote)
        /\ last.status \in {400, 403} => ~last.wrote

(* A refusal at the file limit of a user who holds 100 files, and the       *)
(* stores still hold those 100                                              *)
C18_Witness ==
    /\ last.op = "upload"
    /\ OverFileLimit
    /\ last.status = 403
    /\ ~last.wrote
    /\ Len(userUploads[last.user]) = UserMaxFiles

----------------------------------------------------------------------------
(* C20: a request to /worker/{name}/... or /proxy/{name}/... whose name is  *)
(* not in the binding alias table is answered 404 with the error "Worker    *)
(* '{name}' not found or not configured", no cache layer is consulted and   *)
(* no worker binding is fetched.                                            *)
C20_UnknownWorkerIs404 ==
    (/\ last.op = "workerProxy"
     /\ Len(last.request.pathParts) >= 2
     /\ last.request.pathParts[2] \notin
            {"mts-stv0", "emailworker", "smpweb-2x-auth", "authworker", "auth", "serix"}) =>
        /\ last.status = 404
        /\ last.resp.error = <<"Worker", last.request.pathParts[2], "not found or not configured">>
        /\ last.consulted = <<>>
        /\ last.upstream = <<>>
        /\ last.kvStores = {} /\ last.edgePuts = {}

----------------------------------------------------------------------------
(* A request whose method its endpoint serves, sent without a bearer token  *)
(* or with a token that the verification service does not accept            *)
TokenMissingOrRejected ==
    /\ last.op = "api"
    /\ last.request.endpoint \in
           {"index", "upload", "files", "user", "file-editor", "versions"}
    /\ ~last.serviceFails
    /\ \/ last.request.authorization = <<>>
       \/ last.request.authorization[1] # "Bearer"
       \/ last.request.authorization[2] \notin {"t1", "t2"}
    /\ last.request.endpoint \in {"index", "upload"} => last.request.method = "POST"

(* C19: every endpoint behind authentication (/api/upload/*, /api/files/*,  *)
(* /api/user/*, /api/file-editor/*, /api/versions/* and POST /api/index)    *)
(* answers 401 and writes to no store when the bearer token is absent or    *)
(* the verification service rejects it.                                     *)
C19_NoTokenNoWrite ==
    TokenMissingOrRejected => (last.status = 401 /\ ~last.wrote)

----------------------------------------------------------------------------
(* The last request was made by the owner of a file that exists: the        *)
(* ownership gate of the editor and of the versions endpoint let it through *)
ByOwner ==
    /\ "pre" \in DOMAIN last
    /\ last.pre # <<>>
    /\ Field(last.pre[1], "ownerId") = last.user

EmptyContentUpdate ==
    /\ last.op = "updateContent"
    /\ ByOwner
    /\ last.arg = <<>>

(* C21: a content update with an empty body, made by the owner of an        *)
(* existing file, is answered with the JSON error 400 "Content cannot be    *)
(* empty" and writes nothing: no version record, and content, metadata,     *)
(* version number and usage ledger are as they were.                        *)
C21_EmptyContentRefused ==
    EmptyContentUpdate =>
        /\ last.status = 400
        /\ IsJsonError(last.resp)
        /\ last.resp.error = "Content cannot be empty"
        /\ ~last.wrote
        /\ GetFileMetadata(St, last.id) = last.pre

(* An empty update reaches a file that already has a version record and a   *)
(* ledger entry, which are still there afterwards                           *)
C21_Witness ==
    /\ EmptyContentUpdate
    /\ last.status = 400
    /\ Has(fileContent, last.id)
    /\ Has(versionIndex, last.id)
    /\ Has(storageUsage, last.user)

----------------------------------------------------------------------------
(* The relational write of the last metadata update was rejected *)
RelationalWriteFailed ==
    /\ last.op = "updateMetadata"
    /\ ByOwner
    /\ ~DbUpdate(db, last.id, last.user,
                 MetadataUpdateSets(Spread(last.pre[1], last.arg), now)).ok

(* C22: a metadata update whose relational write failed and whose           *)
(* key-value write succeeded answers 200, and the file's metadata read      *)
(* afterwards has the patched fields and the version raised by one.         *)
C22_KeyValueCopyIsRead ==
    RelationalWriteFailed /\ Has(fileMeta, last.id) =>
        /\ last.status = 200
        /\ LET read == GetFileMetadata(St, last.id)
           IN  /\ read # <<>>
               /\ read[1].version = last.pre[1].version + 1
               /\ \A k \in DOMAIN last.arg : Field(read[1], k) = last.arg[k]

----------------------------------------------------------------------------
(* The owner of the file the last request named, read from the metadata     *)
(* the request found: the user_id of its row, or the userId of the          *)
(* key-value object of a direct upload.  <<>> when there is no such file.   *)
OwnerBefore ==
    IF "pre" \notin DOMAIN last \/ last.pre = <<>> THEN <<>>
    ELSE IF "ownerId" \in DOMAIN last.pre[1] THEN <<last.pre[1].ownerId>>
    ELSE IF "userId" \in DOMAIN last.pre[1] THEN <<last.pre[1].userId>>
    ELSE <<>>

FileOperations == {"delete", "updateInfo", "updateMetadata", "updateContent", "restore"}

ByStranger ==
    /\ last.op \in FileOperations
    /\ OwnerBefore # <<>>
    /\ OwnerBefore[1] # last.user

(* C23: a delete, info update, metadata update, content update or restore   *)
(* of a file by an authenticated user who is not its owner changes no       *)
(* stored state and is answered with 403 or 404.                            *)
C23_StrangerRejected ==
    ByStranger => ~last.wrote /\ last.status \in {403, 404}

----------------------------------------------------------------------------
(* C24: GET /api/stats is answered with 200 and a JSON body that has the    *)
(* properties requests_served, cache_hit_ratio and bandwidth_saved.         *)
C24_StatsAnswered ==
    (last.op = "api" /\ last.request.endpoint = "stats" /\ last.request.method = "GET") =>
        /\ last.status = 200
        /\ "body" \in DOMAIN last.resp
        /\ {"requests_served", "cache_hit_ratio", "bandwidth_saved"}
               \subseteq DOMAIN last.resp.body

----------------------------------------------------------------------------
(* The last request was an edit that was accepted and that owes a snapshot  *)
(* of the state it replaced: a metadata update, a restore, or a content     *)
(* update of a file that had content                                        *)
SnapshotKey == <<last.id, last.pre[1].version>>

EditApplied ==
    /\ last.op \in {"updateMetadata", "updateContent", "restore"}
    /\ "faults" \in DOMAIN last
    /\ last.status = 200
    /\ last.wrote
    /\ last.op = "updateContent" => last.hadContent

(* C25: a metadata update, a content update of a file with content, or a    *)
(* restore changes the file only when the version record of the state it    *)
(* replaces (and, where content is replaced, its content blob) is stored,   *)
(* also when a write of the snapshot fails.                                 *)
C25_NoMutationWithoutSnapshot ==
    EditApplied =>
        /\ Has(versionRec, SnapshotKey)
        /\ versionRec[SnapshotKey].changeType =
              (CASE last.op = "updateMetadata" -> "metadata"
                 [] last.op = "updateContent" -> "content"
                 [] last.op = "restore" -> "both")
        /\ (last.hadContent /\ last.op # "updateMetadata") =>
              Has(versionContent, SnapshotKey)

----------------------------------------------------------------------------
(* C26: a version record, once stored for a file and a version number, and  *)
(* the content blob attached to it, are never overwritten by a later update *)
(* or restore: in every step each of them is kept as it is or removed.      *)
C26_VersionWrittenOnce ==
    [][/\ \A k \in DOMAIN versionRec :
             k \in DOMAIN versionRec' => versionRec'[k] = versionRec[k]
       /\ \A k \in DOMAIN versionContent :
             k \in DOMAIN versionContent' => versionContent'[k] = versionContent[k]]_vars

----------------------------------------------------------------------------
(* The version numbers the index of a file lists *)
Indexed(id) == IF Has(versionIndex, id) THEN Range(versionIndex[id]) ELSE {}

(* C27: the index of a file lists at most 50 version numbers, and the       *)
(* store holds a version record or a version content blob only for numbers  *)
(* the index lists: what createFileVersion drops from the index it has      *)
(* deleted by the time it returns.                                          *)
C27_NoVersionDataOutsideIndex ==
    /\ \A id \in DOMAIN versionIndex : Len(versionIndex[id]) <= MaxVersions
    /\ \A k \in (DOMAIN versionRec) \cup (DOMAIN versionContent) : k[2] \in Indexed(k[1])

(* An accepted update has pushed the oldest version out of a full index,    *)
(* and its record is gone                                                   *)
C27_Witness ==
    /\ last.op \in {"updateMetadata", "updateContent"}
    /\ last.status = 200
    /\ Len(versionIndex[HistId]) = MaxVersions
    /\ last.pre[1].version = MaxVersions + 2
    /\ 2 \notin Indexed(HistId)
    /\ ~Has(versionRec, <<HistId, 2>>)
    /\ ~Has(versionContent, <<HistId, 3>>)
    /\ Has(versionRec, <<HistId, 4>>)

----------------------------------------------------------------------------
(* The step is a GET through the worker proxy that missed both layers and   *)
(* got 200 from the worker                                                  *)
MissStep ==
    /\ nOps' = nOps + 1
    /\ last'.op = "workerProxy"
    /\ last'.request.method = "GET"
    /\ last'.upstream # <<>>
    /\ last'.upstream[1].status = 200

(* The step is the end, good or bad, of a cache write started earlier *)
EdgeWriteStep == pendingEdge' # pendingEdge /\ nOps' = nOps
KVWriteStep == pendingKV' # pendingKV /\ nOps' = nOps

(* The request of the step carries the ETag of the body the worker sent:   *)
(* the response is turned into a 304 without a body                         *)
NotModifiedStep ==
    last'.request.ifNoneMatch = <<GenerateETagFromBuffer(last'.upstream[1].body)>>

(* The response is the worker's body marked MISS, both writes are started   *)
(* and neither has been done                                                *)
WritesIssued ==
    /\ last'.status = 200
    /\ last'.resp.body = last'.upstream[1].body
    /\ last'.resp.headers.xCacheStatus = "MISS"
    /\ last'.kvStores # {} /\ last'.kvStores \subseteq pendingKV'
    /\ last'.edgePuts # {} /\ last'.edgePuts \subseteq pendingEdge'
    /\ kvCache' = kvCache /\ kvCacheMeta' = kvCacheMeta
    /\ edgeCache' = edgeCache

(* The end of either write, stored or failed, leaves the response and the   *)
(* other write as they are                                                  *)
WritesIsolated ==
    /\ EdgeWriteStep =>
         last' = last /\ pendingKV' = pendingKV /\ kvCache' = kvCache
                      /\ kvCacheMeta' = kvCacheMeta
    /\ KVWriteStep =>
         last' = last /\ pendingEdge' = pendingEdge /\ edgeCache' = edgeCache

(* C28: a GET that misses both layers and gets 200 from the worker is       *)
(* answered while its write to the edge cache and its write to KV are both  *)
(* started and neither has been done; the end of either write, stored or    *)
(* failed, leaves the response and the other write as they are.             *)
C28_BothWritesBestEffort ==
    [][(MissStep => WritesIssued) /\ WritesIsolated]_vars

(* C28, amended: the same for a GET whose response is sent with status 200, *)
(* that is, unless the request carries the ETag of the worker's body; then  *)
(* the answer is 304 and no write is started.                               *)
C28_WritesOfSentBodyBestEffort ==
    [][/\ (MissStep /\ ~NotModifiedStep) => WritesIssued
       /\ (MissStep /\ NotModifiedStep) =>
            /\ last'.status = 304
            /\ last'.kvStores = {} /\ last'.edgePuts = {}
            /\ pendingKV' = pendingKV /\ pendingEdge' = pendingEdge
       /\ WritesIsolated]_vars

(* After a miss the write to the edge cache has ended without storing       *)
(* anything and the write to KV has stored the response                     *)
C28_Witness ==
    /\ last.op = "workerProxy"
    /\ last.request.method = "GET"
    /\ last.status = 200
    /\ last.resp.headers.xCacheStatus = "MISS"
    /\ last.edgePuts \cap pendingEdge = {}
    /\ last.kvStores \cap pendingKV = {}
    /\ ~Has(edgeCache, EdgeCacheKey(last.request.pathParts, "-worker-proxy"))
    /\ Has(kvCache, WorkerCacheKey(last.request))
    /\ Has(kvCacheMeta, WorkerCacheKey(last.request))

----------------------------------------------------------------------------
(* The last request was a GET through the worker proxy answered from the    *)
(* edge cache, and the store in KV it started has ended with both puts      *)
(* done: KV holds the response and the metadata the call wrote              *)
BackfillDone ==
    /\ last.op = "workerProxy"
    /\ last.request.method = "GET"
    /\ "headers" \in DOMAIN last.resp
    /\ last.resp.headers.xCacheStatus = "CACHE-HIT"
    /\ last.kvStores # {}
    /\ \A task \in last.kvStores :
          /\ task \notin pendingKV
          /\ Has(kvCache, task.cacheKey)
          /\ kvCache[task.cacheKey].value = task.responseData
          /\ Has(kvCacheMeta, task.cacheKey)
          /\ kvCacheMeta[task.cacheKey].value = task.metadata
          /\ now <= task.metadata.expires

(* What the same request would be answered with now, whatever the worker    *)
(* would say if it were asked                                               *)
NextAnswers == {HandleWorkerProxyRequest(Ca, last.request, upstream, now) :
                   upstream \in Upstreams}

(* C29: once the backfill of a GET answered from the edge cache has ended   *)
(* without error, the same GET made before the entry expires is answered    *)
(* from KV (KV-HIT) with the same body; neither the edge cache nor the      *)
(* worker is asked, and no write is started.                                *)
C29_BackfilledEntryServedFromKV ==
    BackfillDone =>
        \A r \in NextAnswers :
            /\ r.consulted = <<"KV">>
            /\ r.resp.status = 200
            /\ "headers" \in DOMAIN r.resp
            /\ r.resp.headers.xCacheStatus = "KV-HIT"
            /\ r.resp.headers.xCacheLayer = "KV"
            /\ r.resp.body = last.resp.body
            /\ r.kvStores = {} /\ r.edgePuts = {}

(* The backfill has ended, time has passed, and the entry has not expired   *)
C29_Witness ==
    /\ BackfillDone
    /\ now > last.at
    /\ Has(edgeCache, EdgeCacheKey(last.request.pathParts, "-worker-proxy"))

----------------------------------------------------------------------------
(* C30: an upload during whose quota check the usage of the user cannot be  *)
(* computed (the relational query of the usage throws) is refused, and      *)
(* nothing is stored.                                                       *)
C30_UnknownUsageRefusesUpload ==
    (last.op = "upload" /\ last.quotaDbFails) =>
        /\ last.status = 403
        /\ ~last.wrote

----------------------------------------------------------------------------
(* A worker-proxy or static-asset request answered with a body *)
BodyServed ==
    /\ last.op \in {"workerProxy", "asset"}
    /\ last.status = 200
    /\ "headers" \in DOMAIN last.resp
    /\ last.resp.body # <<>>

(* C31: a body served by the worker proxy or as a static asset, from the    *)
(* origin or from a cache layer, carries the ETag derived from that body,   *)
(* and it is not sent to a request whose If-None-Match is that ETag: such a *)
(* request gets 304 without a body.                                         *)
C31_ServedBodyValidated ==
    BodyServed =>
        /\ last.resp.headers.etag = GenerateETagFromBuffer(last.resp.body)
        /\ last.request.ifNoneMatch # <<last.resp.headers.etag>>

----------------------------------------------------------------------------
(* The GET requests to the worker and path of `request` that present other  *)
(* credentials                                                              *)
OtherCallers(request) ==
    {other \in WorkerRequests :
        /\ other.method = "GET"
        /\ other.pathParts = request.pathParts
        /\ other.authorization # request.authorization}

(* A worker-proxy GET has just been answered *)
WorkerGetStep ==
    /\ nOps' = nOps + 1
    /\ last'.op = "workerProxy"
    /\ last'.request.method = "GET"

(* The answer comes from the KV entry that the request answered before it   *)
(* stored                                                                   *)
ServedEntryOfPrevious ==
    /\ last'.consulted = <<"KV">>
    /\ last.op = "workerProxy"
    /\ last.kvStores # {}
    /\ WorkerCacheKey(last.request) = WorkerCacheKey(last'.request)

(* C32: a worker-proxy GET never has the KV cache key of a GET to the same  *)
(* worker and path with another Authorization header, and the entry stored  *)
(* for one request is served from KV only to a request with the same        *)
(* Authorization header.                                                    *)
C32_CredentialsSeparateCacheEntries ==
    [][WorkerGetStep =>
          /\ \A other \in OtherCallers(last'.request) :
                 WorkerCacheKey(other) # WorkerCacheKey(last'.request)
          /\ ServedEntryOfPrevious =>
                 last'.request.authorization = last.request.authorization]_vars

----------------------------------------------------------------------------
(* C33: however the upload requests of a user of role 'user' interleave,    *)
(* the number of files counted for the user never exceeds the limit of the  *)
(* role.                                                                    *)
C33_CountWithinRoleLimit ==
    CalculateUserUsage(St, RaceUser, FALSE).files <= Quotas(Role(RaceUser)).maxFiles

----------------------------------------------------------------------------
(* Every request has been answered *)
AllCompleted == \A p \in 1..MaxRaceReqs : At(p, "done")

(* C34: once all concurrent direct uploads of a user have completed, every  *)
(* upload that was answered with success is in the user's upload list.      *)
C34_NoSuccessfulUploadLost ==
    AllCompleted =>
        \A p \in 1..MaxRaceReqs :
            inflight[p].status = 200 =>
                \E i \in DOMAIN TrackedUploads(St, RaceUser) :
                    TrackedUploads(St, RaceUser)[i].storagePath = inflight[p].resp.file.id

----------------------------------------------------------------------------
(* C35: after any sequence of content updates, metadata updates and         *)
(* restores, the size in the stored metadata of a file (file:<id>) is the   *)
(* byte length of its stored content (content:<id>).                        *)
C35_SizeIsContentLength ==
    \A id \in (DOMAIN fileContent) \cap (DOMAIN fileMeta) :
        "size" \in DOMAIN fileMeta[id] => fileMeta[id].size = Len(fileContent[id])

----------------------------------------------------------------------------
----------------------------------------------------------------------------
(* The end of the lifetime of the response that the request answered last   *)
(* fetched from the worker and cached: its fetch time plus the route TTL    *)
FetchedCopyExpires ==
    last.at + GetWorkerCacheTTL(Drop(last.request.pathParts, 2)) * 1000

(* The copy put in the edge cache by the request answered last is served    *)
(* to the same GET within its lifetime                                      *)
FreshEdgeHitStep ==
    /\ nOps' = nOps + 1
    /\ last.op = "workerProxy" /\ last.edgePuts # {}
    /\ last'.op = "workerProxy"
    /\ last'.request.pathParts = last.request.pathParts
    /\ last'.consulted = <<"KV", "EdgeCache">>
    /\ last'.at < FetchedCopyExpires

(* C37: a cache hit does not extend the lifetime of the cached copy: what   *)
(* a hit on a response fetched at time t with route TTL T writes to a cache *)
(* layer expires no later than t + T, so the response is not served after   *)
(* that time.                                                               *)
C37_HitKeepsExpiry ==
    [][FreshEdgeHitStep =>
          \A task \in last'.kvStores : task.metadata.expires <= FetchedCopyExpires]_vars

----------------------------------------------------------------------------
(* C38: the canUpload flag of GET /api/user/quota is true exactly when      *)
(* checkUserQuota lets the user upload at the same usage.                   *)
C38_FlagAgreesWithQuotaCheck ==
    (last.op = "quota" /\ last.status = 200) =>
        (last.resp.canUpload
            <=> CheckUserQuota(St, last.user, Role(last.user), last.dbFails).canUpload)

----------------------------------------------------------------------------
(* A metadata update of a file was accepted, and the next request restores  *)
(* the version which that update recorded                                   *)
RestoreOfUpdateStep ==
    /\ last.op = "updateMetadata" /\ last.status = 200
    /\ nOps' = nOps + 1
    /\ last'.op = "restore" /\ last'.status = 200
    /\ last'.id = last.id
    /\ last'.arg = last.pre[1].version

(* Two metadata objects with the same fields and, but for version and       *)
(* modified, the same values                                                *)
SameButVersion(m1, m2) ==
    /\ DOMAIN m1 = DOMAIN m2
    /\ \A k \in (DOMAIN m1) \ {"version", "modified"} : m1[k] = m2[k]

(* C39: restoring the version recorded by a metadata update gives the file  *)
(* the metadata it had before that update, but for version and modified.    *)
C39_RestoreUndoesMetadataUpdate ==
    [][RestoreOfUpdateStep =>
          /\ GetFileMetadata(St, last.id)' # <<>>
          /\ SameButVersion(last.pre[1], GetFileMetadata(St, last.id)'[1])]_vars

----------------------------------------------------------------------------
(* The last request was a database-backed upload answered with an error *)
DatabaseUploadFailed == last.op = "databaseUpload" /\ last.status >= 400

(* C40: after a database-backed upload that was answered with an error      *)
(* there is no row and no content of that upload, and the user's usage is   *)
(* what it was before the request.                                          *)
C40_FailedUploadLeavesNothing ==
    DatabaseUploadFailed =>
        /\ ~Has(db, RandomUUID(last.k))
        /\ ~Has(assetCache, StripSuffix(GenerateComplexAssetPath(last.k)))
        /\ CalculateUserUsage(St, last.user, FALSE) = last.usedBefore
====
